---------------------------- MODULE Spec2Model ----------------------------
(***************************************************************************)
(* A model of GuideRails' execution core (src/src/guiderails/executor.py) *)
(* and of its Markdown annotation parser (src/src/guiderails/parser.py).   *)
(*                                                                         *)
(* Python strings are TLA+ strings (TLC evaluates Len, \o, SubSeq, Head    *)
(* and Tail on them), an Optional[str] is <<>> (None) or <<s>>, and a call *)
(* that can raise returns a record whose field "raised" tells whether it   *)
(* did.  Paths follow POSIX (os.sep = "/").                                *)
(***************************************************************************)
EXTENDS Integers, Sequences, FiniteSets, TLC

VARIABLES
    v_result,     \* Validator.validate: the ExecutionResult argument
    v_block,      \* Validator.validate: the CodeBlock argument
    v_ret,        \* Validator.validate: what the call gave (NoCall before it)
    cwd,          \* os.getcwd() of the process
    p_path,       \* PathSandbox.validate_path: path
    p_base,       \* PathSandbox.validate_path: base_dir
    p_allow,      \* PathSandbox.validate_path: allow_outside
    p_ret,        \* PathSandbox.validate_path: what the call gave
    base_working_dir,  \* Executor.base_working_dir
    allow_outside,     \* Executor.allow_outside
    variables,    \* Executor.variables.variables: the dict name -> value
    fs,           \* the filesystem: absolute path -> node
    pc,           \* "idle", or "running" inside subprocess.run
    call,         \* the execute_code_block call that is inside subprocess.run
    child,        \* the child process of the last execute_code_block call
    exit_status,  \* the exit status of that child once it has exited by itself
    ret,          \* what the last call on the Executor gave
    nops,         \* the number of calls made on the Executor
    lines,        \* parse_markdown: content.split("\n")
    parser,       \* parse_markdown: its locals, and how far the loop has come
    s_store,      \* VariableStore.variables of the store substitute is called on
    s_text,       \* VariableStore.substitute: the text of the first call
    s_outs,       \* what the calls of substitute gave, each on the result before
    environ,      \* os.environ: the GUIDERAILS_* variables that are set
    yml,          \* the mapping in the nearest guiderails.yml, None without one
    o_args,       \* OutputConfig.from_cli_and_env: its arguments
    o_ret,        \* OutputConfig.from_cli_and_env: the OutputConfig it gave
    runner        \* GuideRunner: its fields, and how far run has come

validateVars == <<v_result, v_block, v_ret>>

pathVars == <<p_path, p_base, p_allow, p_ret>>

execVars ==
    <<base_working_dir, allow_outside, variables, fs, pc, call, child, exit_status,
      ret, nops>>

parseVars == <<lines, parser>>

substVars == <<s_store, s_text, s_outs>>

configVars == <<environ, yml, o_args, o_ret>>

appVars == <<configVars, runner>>

vars == <<validateVars, cwd, pathVars, execVars, parseVars, substVars, appVars>>

NoCall ==
    [called |-> FALSE, raised |-> FALSE, exc |-> "", passed |-> FALSE,
     message |-> ""]

(***************************************************************************)
(* Strings                                                                 *)
(***************************************************************************)
Digits == {"0", "1", "2", "3", "4", "5", "6", "7", "8", "9"}

Whitespace == {" ", "\t", "\n", "\r", "\f"}

CharAt(s, i) == SubSeq(s, i, i)

\* F(v), with v evaluated once
Bind(v, F(_)) == CHOOSE r \in {F(x) : x \in {v}} : TRUE

RECURSIVE LStrip(_)
LStrip(s) ==
    IF Len(s) > 0 /\ Head(s) \in Whitespace THEN LStrip(Tail(s)) ELSE s

RECURSIVE RStrip(_)
RStrip(s) ==
    IF Len(s) > 0 /\ CharAt(s, Len(s)) \in Whitespace
    THEN RStrip(SubSeq(s, 1, Len(s) - 1))
    ELSE s

\* str.strip()
Strip(s) == RStrip(LStrip(s))

\* str.startswith(p)
StartsWith(s, p) == Len(s) >= Len(p) /\ SubSeq(s, 1, Len(p)) = p

\* str.endswith(p)
EndsWith(s, p) == Len(s) >= Len(p) /\ SubSeq(s, Len(s) - Len(p) + 1, Len(s)) = p

\* p in s
Contains(s, p) ==
    \E i \in 1..(Len(s) - Len(p) + 1) : SubSeq(s, i, i + Len(p) - 1) = p

DigitVal(c) ==
    CASE c = "0" -> 0 [] c = "1" -> 1 [] c = "2" -> 2 [] c = "3" -> 3
      [] c = "4" -> 4 [] c = "5" -> 5 [] c = "6" -> 6 [] c = "7" -> 7
      [] c = "8" -> 8 [] c = "9" -> 9

DigitChar(d) == CharAt("0123456789", d + 1)

RECURSIVE NatToStr(_)
NatToStr(n) ==
    IF n < 10 THEN DigitChar(n) ELSE NatToStr(n \div 10) \o DigitChar(n % 10)

\* str(n) of an int
IntToStr(n) == IF n < 0 THEN "-" \o NatToStr(0 - n) ELSE NatToStr(n)

\* The digits of an int literal: decimal digits, single underscores allowed
\* between two digits.
RECURSIVE DigitsOk(_, _)
DigitsOk(s, prevDigit) ==
    IF Len(s) = 0 THEN prevDigit
    ELSE IF Head(s) \in Digits THEN DigitsOk(Tail(s), TRUE)
    ELSE IF Head(s) = "_" THEN prevDigit /\ DigitsOk(Tail(s), FALSE)
    ELSE FALSE

RECURSIVE DigitsVal(_, _)
DigitsVal(s, acc) ==
    IF Len(s) = 0 THEN acc
    ELSE IF Head(s) = "_" THEN DigitsVal(Tail(s), acc)
    ELSE DigitsVal(Tail(s), 10 * acc + DigitVal(Head(s)))

\* int(s) of a str: surrounding whitespace is skipped, one sign is allowed,
\* anything else raises ValueError.
PyInt(s) ==
    LET t == Strip(s)
        signed == Len(t) > 0 /\ Head(t) \in {"+", "-"}
        body == IF signed THEN Tail(t) ELSE t
    IN  IF DigitsOk(body, FALSE)
        THEN [raised |-> FALSE,
              val |-> IF signed /\ Head(t) = "-"
                      THEN 0 - DigitsVal(body, 0) ELSE DigitsVal(body, 0)]
        ELSE [raised |-> TRUE, val |-> 0]

(***************************************************************************)
(* Regular expressions: the part of Python's re that the model's patterns  *)
(* use.  A pattern is a sequence of items, each a literal character, "."   *)
(* or "\d", optionally followed by "+" or "*", with "^" and "$" as         *)
(* (multiline) anchors.  "(", ")", "[" alone and a quantifier with nothing *)
(* before it do not compile (re.error).                                    *)
(***************************************************************************)
RegexSpecial == {"(", ")", "[", "]", "+", "*", "?", "{", "}", "|", "\\"}

ReError == <<[kind |-> "error", ch |-> "", q |-> ""]>>

\* The items of a pattern: ReError when it does not compile.
RECURSIVE ReItems(_, _)
ReItems(p, acc) ==
    IF acc = ReError THEN acc
    ELSE IF Len(p) = 0 THEN acc
    ELSE LET c == Head(p)
             atom == IF c = "\\" /\ Len(p) >= 2 /\ CharAt(p, 2) = "d"
                        THEN <<"digit", 2>>
                     ELSE IF c = "." THEN <<"any", 1>>
                     ELSE IF c = "^" THEN <<"bol", 1>>
                     ELSE IF c = "$" THEN <<"eol", 1>>
                     ELSE IF c \in RegexSpecial THEN <<"error", 0>>
                     ELSE <<"lit", 1>>
         IN  IF atom[1] = "error" THEN ReError
             ELSE LET rest == SubSeq(p, atom[2] + 1, Len(p))
                      q == IF Len(rest) > 0 /\ Head(rest) \in {"+", "*"}
                              /\ atom[1] \notin {"bol", "eol"}
                           THEN Head(rest) ELSE ""
                      item == [kind |-> atom[1], ch |-> c, q |-> q]
                  IN  ReItems(SubSeq(rest, Len(q) + 1, Len(rest)), Append(acc, item))

ReCompiles(p) == ReItems(p, <<>>) # ReError

ReCharOk(item, c) ==
    CASE item.kind = "digit" -> c \in Digits
      [] item.kind = "any" -> c # "\n"
      [] item.kind = "lit" -> c = item.ch
      [] OTHER -> FALSE

\* Whether items k.. match s from position i on (re.MULTILINE anchors).
RECURSIVE ReMatchAt(_, _, _, _)
ReMatchAt(items, k, s, i) ==
    IF k > Len(items) THEN TRUE
    ELSE LET it == items[k]
             here == i <= Len(s) /\ ReCharOk(it, CharAt(s, i))
         IN  CASE it.kind = "bol" ->
                    (i = 1 \/ CharAt(s, i - 1) = "\n") /\ ReMatchAt(items, k + 1, s, i)
               [] it.kind = "eol" ->
                    (i = Len(s) + 1 \/ CharAt(s, i) = "\n")
                    /\ ReMatchAt(items, k + 1, s, i)
               [] it.q = "" -> here /\ ReMatchAt(items, k + 1, s, i + 1)
               [] it.q = "+" ->
                    here /\ (ReMatchAt(items, k, s, i + 1)
                                \/ ReMatchAt(items, k + 1, s, i + 1))
               [] it.q = "*" ->
                    ReMatchAt(items, k + 1, s, i)
                        \/ (here /\ ReMatchAt(items, k, s, i + 1))

\* re.search(p, s, re.MULTILINE) is not None, for a pattern that compiles
ReSearch(p, s) ==
    \E i \in 1..(Len(s) + 1) : ReMatchAt(ReItems(p, <<>>), 1, s, i)



(***************************************************************************)
(* Data model                                                              *)
(***************************************************************************)
None == <<>>

Some(s) == <<s>>

\* Python's truth value of an Optional[str]
Truthy(o) == o # None /\ o[1] # ""

\* parser.CodeBlock, with the capture targets Executor reads from it
CodeBlock(code, mode, expected) ==
    [code |-> code, language |-> "bash", mode |-> mode, expected |-> expected,
     timeout |-> 30, working_dir |-> None, continue_on_error |-> FALSE,
     line_number |-> 0, out_var |-> None, out_file |-> None, code_var |-> None]

ExecutionResult(success, exit_code, stdout, stderr, error_message) ==
    [success |-> success, exit_code |-> exit_code, stdout |-> stdout,
     stderr |-> stderr, error_message |-> error_message]

\* What a call gave: a (bool, str) pair, or an exception.
Returned(passed, message) ==
    [called |-> TRUE, raised |-> FALSE, exc |-> "", passed |-> passed,
     message |-> message]

Raised(exc) ==
    [called |-> TRUE, raised |-> TRUE, exc |-> exc, passed |-> FALSE,
     message |-> ""]

(***************************************************************************)
(* Validator                                                               *)
(***************************************************************************)
\* ValidateExit that compares the exit code's text with expected.
ValidateExit_AsText(result, expected) ==
    Bind(PyInt(expected),
         LAMBDA parsed :
            IF parsed.raised THEN Raised("ValueError")
            ELSE IF IntToStr(result.exit_code) = expected
            THEN Returned(TRUE, "Exit code matched: " \o IntToStr(parsed.val))
            ELSE Returned(FALSE, "Exit code " \o IntToStr(result.exit_code)
                                    \o " != expected " \o IntToStr(parsed.val)))

\* Validator.validate, mode "exit"
ValidateExit(result, expected) ==
    Bind(PyInt(expected),
         LAMBDA parsed :
            IF parsed.raised THEN Raised("ValueError")
            ELSE IF result.exit_code = parsed.val
            THEN Returned(TRUE, "Exit code matched: " \o IntToStr(parsed.val))
            ELSE Returned(FALSE, "Exit code " \o IntToStr(result.exit_code)
                                    \o " != expected " \o IntToStr(parsed.val)))

ValidateContains(result, expected) ==
    IF Contains(result.stdout \o result.stderr, expected)
    THEN Returned(TRUE, "Output contains: '" \o expected \o "'")
    ELSE Returned(FALSE, "Output does not contain: '" \o expected \o "'")

ValidateRegex(result, expected) ==
    IF ~ReCompiles(expected)
    THEN Returned(FALSE, "Invalid regex pattern: " \o expected)
    ELSE IF ReSearch(expected, result.stdout \o result.stderr)
    THEN Returned(TRUE, "Output matches regex: " \o expected)
    ELSE Returned(FALSE, "Output does not match regex: " \o expected)

ValidateExact(result, expected) ==
    LET output == Strip(result.stdout \o result.stderr)
        expected_stripped == Strip(expected)
    IN  IF output = expected_stripped
        THEN Returned(TRUE, "Output matches exactly")
        ELSE Returned(FALSE, "Output does not match exactly.\nExpected:\n"
                                \o expected_stripped \o "\nGot:\n" \o output)

\* Validator.validate(result, code_block)
Validate(result, code_block) ==
    LET mode == code_block.mode
        expected == code_block.expected
    IN  CASE mode = "exit" -> ValidateExit(result, expected)
          [] mode = "contains" -> ValidateContains(result, expected)
          [] mode = "regex" -> ValidateRegex(result, expected)
          [] mode = "exact" -> ValidateExact(result, expected)
          [] OTHER -> Returned(FALSE, "Unknown validation mode: " \o mode)

(***************************************************************************)
(* os.path (posixpath)                                                     *)
(***************************************************************************)
sep == "/"

\* posixpath.isabs
IsAbs(s) == StartsWith(s, sep)

\* posixpath.join(a, b)
PathJoin(a, b) ==
    IF StartsWith(b, sep) THEN b
    ELSE IF a = "" \/ EndsWith(a, sep) THEN a \o b
    ELSE a \o sep \o b

\* s.split("/")
RECURSIVE SplitSep(_, _, _)
SplitSep(s, cur, acc) ==
    IF Len(s) = 0 THEN Append(acc, cur)
    ELSE IF Head(s) = sep THEN SplitSep(Tail(s), "", Append(acc, cur))
    ELSE SplitSep(Tail(s), cur \o Head(s), acc)

\* The loop of posixpath.normpath over the components
RECURSIVE NormComps(_, _, _)
NormComps(comps, new_comps, initial_slashes) ==
    IF comps = <<>> THEN new_comps
    ELSE LET comp == Head(comps)
             n == Len(new_comps)
         IN  IF comp \in {"", "."}
             THEN NormComps(Tail(comps), new_comps, initial_slashes)
             ELSE IF comp # ".." \/ (initial_slashes = 0 /\ n = 0)
                     \/ (n > 0 /\ new_comps[n] = "..")
             THEN NormComps(Tail(comps), Append(new_comps, comp), initial_slashes)
             ELSE IF n > 0
             THEN NormComps(Tail(comps), SubSeq(new_comps, 1, n - 1), initial_slashes)
             ELSE NormComps(Tail(comps), new_comps, initial_slashes)

\* "/".join(comps)
RECURSIVE JoinSep(_)
JoinSep(comps) ==
    IF comps = <<>> THEN ""
    ELSE IF Len(comps) = 1 THEN comps[1]
    ELSE comps[1] \o sep \o JoinSep(Tail(comps))

\* The number of leading slashes posixpath.normpath keeps: 0, 1 or 2
InitialSlashes(path) ==
    IF ~StartsWith(path, sep) THEN 0
    ELSE IF StartsWith(path, "//") /\ ~StartsWith(path, "///") THEN 2
    ELSE 1

\* posixpath.normpath
NormPath(path) ==
    IF path = "" THEN "."
    ELSE Bind(InitialSlashes(path),
              LAMBDA initial_slashes :
                Bind(SubSeq("//", 1, initial_slashes)
                        \o JoinSep(NormComps(SplitSep(path, "", <<>>), <<>>,
                                              initial_slashes)),
                     LAMBDA joined : IF joined = "" THEN "." ELSE joined))

\* posixpath.abspath, in a process whose working directory is dir
AbsPath(path, dir) ==
    NormPath(IF IsAbs(path) THEN path ELSE PathJoin(dir, path))

\* posixpath.dirname
RECURSIVE RStripSep(_)
RStripSep(s) ==
    IF Len(s) > 0 /\ CharAt(s, Len(s)) = sep
    THEN RStripSep(SubSeq(s, 1, Len(s) - 1)) ELSE s

RECURSIVE LastSep(_, _)
LastSep(s, i) ==
    IF i = 0 THEN 0 ELSE IF CharAt(s, i) = sep THEN i ELSE LastSep(s, i - 1)

DirName(p) ==
    LET head == SubSeq(p, 1, LastSep(p, Len(p)))
    IN  IF head # "" /\ RStripSep(head) # "" THEN RStripSep(head) ELSE head

(***************************************************************************)
(* PathSandbox                                                             *)
(***************************************************************************)
PathResult(is_valid, resolved_path, error) ==
    [called |-> TRUE, is_valid |-> is_valid, resolved_path |-> resolved_path,
     error |-> error]

NoPathCall ==
    [called |-> FALSE, is_valid |-> FALSE, resolved_path |-> "", error |-> ""]

AbsoluteError == "Absolute paths are not allowed for safety reasons"

TraversalError(path) ==
    "Path traversal outside working directory not allowed: " \o path

\* StaysWithin without the separator: a sibling whose name starts with the
\* base's name passes.
StaysWithin_NoSep(resolved, base_abs) ==
    StartsWith(resolved, base_abs) \/ resolved = base_abs

\* The containment test of validate_path: resolved is base_abs or starts
\* with base_abs + os.sep.
StaysWithin(resolved, base_abs) ==
    StartsWith(resolved, base_abs \o sep) \/ resolved = base_abs

\* PathSandbox.validate_path(path, base_dir, allow_outside=allow), in a process
\* whose working directory is dir.  (os.path.relpath of two absolute POSIX
\* paths does not raise: the ValueError branch is that of Windows drives.)
ValidatePath(path, base_dir, allow, dir) ==
    IF IsAbs(path) /\ ~allow
    THEN PathResult(FALSE, "", AbsoluteError)
    ELSE Bind(AbsPath(IF IsAbs(path) THEN path ELSE PathJoin(base_dir, path), dir),
              LAMBDA resolved :
                IF ~allow /\ ~StaysWithin(resolved, AbsPath(base_dir, dir))
                THEN PathResult(FALSE, "", TraversalError(path))
                ELSE PathResult(TRUE, resolved, ""))

(***************************************************************************)
(* VariableStore                                                           *)
(***************************************************************************)
Letters ==
    {"a", "b", "c", "d", "e", "f", "g", "h", "i", "j", "k", "l", "m", "n",
     "o", "p", "q", "r", "s", "t", "u", "v", "w", "x", "y", "z",
     "A", "B", "C", "D", "E", "F", "G", "H", "I", "J", "K", "L", "M", "N",
     "O", "P", "Q", "R", "S", "T", "U", "V", "W", "X", "Y", "Z"}

IdStart == Letters \cup {"_"}

IdChar == IdStart \cup Digits

\* The first index from i on whose character is not one of an identifier
RECURSIVE IdentEnd(_, _)
IdentEnd(s, i) ==
    IF i <= Len(s) /\ CharAt(s, i) \in IdChar THEN IdentEnd(s, i + 1) ELSE i

\* {}
EmptyDict == [k \in {} |-> ""]

\* dict.get(name, default)
DictGet(d, name, default) == IF name \in DOMAIN d THEN d[name] ELSE default

\* d[name] = value
DictSet(d, name, value) ==
    [k \in DOMAIN d \cup {name} |-> IF k = name THEN value ELSE d[k]]

\* Substitute that replaces the first token only and copies the rest.
RECURSIVE Substitute_FirstOnly(_, _)
Substitute_FirstOnly(d, text) ==
    IF text = "" THEN ""
    ELSE LET e == IdentEnd(text, 4)
             matches == /\ StartsWith(text, "${")
                        /\ Len(text) >= 3 /\ CharAt(text, 3) \in IdStart
                        /\ e <= Len(text) /\ CharAt(text, e) = "}"
         IN  IF matches
             THEN DictGet(d, SubSeq(text, 3, e - 1), SubSeq(text, 1, e))
                     \o SubSeq(text, e + 1, Len(text))
             ELSE Head(text) \o Substitute_FirstOnly(d, Tail(text))

\* Substitute that replaces a token whose name is not in the store by "".
RECURSIVE Substitute_Blank(_, _)
Substitute_Blank(d, text) ==
    IF text = "" THEN ""
    ELSE LET e == IdentEnd(text, 4)
             matches == /\ StartsWith(text, "${")
                        /\ Len(text) >= 3 /\ CharAt(text, 3) \in IdStart
                        /\ e <= Len(text) /\ CharAt(text, e) = "}"
         IN  IF matches
             THEN DictGet(d, SubSeq(text, 3, e - 1), "")
                     \o Substitute_Blank(d, SubSeq(text, e + 1, Len(text)))
             ELSE Head(text) \o Substitute_Blank(d, Tail(text))

\* VariableStore.substitute: pattern.sub(replace_var, text), one pass from
\* the left over the non-overlapping matches of \$\{([a-zA-Z_][a-zA-Z0-9_]*)\}
RECURSIVE Substitute(_, _)
Substitute(d, text) ==
    IF text = "" THEN ""
    ELSE LET e == IdentEnd(text, 4)
             matches == /\ StartsWith(text, "${")
                        /\ Len(text) >= 3 /\ CharAt(text, 3) \in IdStart
                        /\ e <= Len(text) /\ CharAt(text, e) = "}"
         IN  IF matches
             THEN DictGet(d, SubSeq(text, 3, e - 1), SubSeq(text, 1, e))
                     \o Substitute(d, SubSeq(text, e + 1, Len(text)))
             ELSE Head(text) \o Substitute(d, Tail(text))

(***************************************************************************)
(* The filesystem: a function from normalized absolute paths to nodes.  A  *)
(* path outside its domain does not exist.  There are no symbolic links.  *)
(***************************************************************************)
Absent == [kind |-> "absent", ro |-> FALSE, content |-> "", exec |-> FALSE]

Dir(ro) == [kind |-> "dir", ro |-> ro, content |-> "", exec |-> FALSE]

File(content, exec) == [kind |-> "file", ro |-> FALSE, content |-> content, exec |-> exec]

Node(f, path) == IF path \in DOMAIN f THEN f[path] ELSE Absent

FsPut(f, path, node) ==
    [k \in DOMAIN f \cup {path} |-> IF k = path THEN node ELSE f[k]]

\* os.path.exists
Exists(f, path) == Node(f, path).kind # "absent"

\* os.path.isdir
IsDir(f, path) == Node(f, path).kind = "dir"

\* What a filesystem call did: the filesystem after it, and the exception
\* it raised ("" for none).
FsOk(f) == [fs |-> f, exc |-> ""]

FsRaise(f, exc) == [fs |-> f, exc |-> exc]

\* os.mkdir(name)
Mkdir(f, name) ==
    LET parent == DirName(name)
    IN  IF Exists(f, name) THEN FsRaise(f, "FileExistsError")
        ELSE IF Node(f, parent).kind = "absent" THEN FsRaise(f, "FileNotFoundError")
        ELSE IF Node(f, parent).kind = "file" THEN FsRaise(f, "NotADirectoryError")
        ELSE IF Node(f, parent).ro THEN FsRaise(f, "PermissionError")
        ELSE FsOk(FsPut(f, name, Dir(FALSE)))

\* os.makedirs(name, exist_ok=True) of a normalized absolute path
RECURSIVE Makedirs(_, _)
Makedirs(f, name) ==
    Bind(IF DirName(name) \notin {"", name} /\ ~Exists(f, DirName(name))
         THEN Makedirs(f, DirName(name)) ELSE FsOk(f),
         LAMBDA up :
            IF up.exc \notin {"", "FileExistsError"} THEN up
            ELSE Bind(Mkdir(up.fs, name),
                      LAMBDA made : IF made.exc # "" /\ IsDir(up.fs, name)
                                    THEN FsOk(up.fs) ELSE made))

\* with open(path, mode) as f: f.write(data), mode "w" or "a"
OpenWrite(f, path, mode, data) ==
    LET parent == DirName(path)
        old == Node(f, path)
    IN  IF old.kind = "dir" THEN FsRaise(f, "IsADirectoryError")
        ELSE IF Node(f, parent).kind = "absent" THEN FsRaise(f, "FileNotFoundError")
        ELSE IF Node(f, parent).kind = "file" THEN FsRaise(f, "NotADirectoryError")
        ELSE IF old.kind = "absent" /\ Node(f, parent).ro
        THEN FsRaise(f, "PermissionError")
        ELSE FsOk(FsPut(f, path,
                        File(IF mode = "a" THEN old.content \o data ELSE data,
                             old.exec)))

\* os.chmod(path, st_mode | S_IXUSR | S_IXGRP | S_IXOTH)
ChmodExec(f, path) ==
    FsPut(f, path, File(Node(f, path).content, TRUE))

\* str(e) of an OSError
ExcText(exc, path) == exc \o ": '" \o path \o "'"

(***************************************************************************)
(* Executor                                                                *)
(***************************************************************************)
\* parser.FileBlock, as Executor.write_file reads it
FileBlock(code, path, mode, executable, template, once) ==
    [code |-> code, path |-> path, mode |-> mode, executable |-> executable,
     template |-> template, once |-> once, line_number |-> 0]

NoResult == ExecutionResult(FALSE, 0, "", "", None)

\* What a call on the Executor gave.  kind tells how execute_code_block
\* ended, result is its ExecutionResult, validated tells whether
\* Validator.validate was called.
Ret(op, block, raised, exc, passed, message, kind, result, validated) ==
    [op |-> op, block |-> block, raised |-> raised, exc |-> exc,
     passed |-> passed, message |-> message, kind |-> kind,
     result |-> result, validated |-> validated]

NoRet == Ret("none", <<>>, FALSE, "", FALSE, "", "", NoResult, FALSE)

\* The write of write_file's try block
WriteTry(f, file_block, resolved_path, content) ==
    Bind(OpenWrite(f, resolved_path,
                   IF file_block.mode = "append" THEN "a" ELSE "w",
                   IF EndsWith(content, "\n") THEN content ELSE content \o "\n"),
         LAMBDA wrote :
            IF wrote.exc # ""
            THEN [fs |-> wrote.fs,
                  ret |-> Returned(FALSE, "Failed to write file: "
                                            \o ExcText(wrote.exc, resolved_path))]
            ELSE Bind(IF file_block.executable
                      THEN ChmodExec(wrote.fs, resolved_path) ELSE wrote.fs,
                      LAMBDA done :
                        [fs |-> done,
                         ret |-> Returned(TRUE, "Wrote "
                                    \o IntToStr(Len(Node(done, resolved_path).content))
                                    \o " bytes to " \o file_block.path)]))

\* SkipsExisting that honours once for mode "write" only.
SkipsExisting_WriteOnly(f, file_block, resolved_path) ==
    file_block.once /\ file_block.mode = "write" /\ Exists(f, resolved_path)

\* write_file's test "file_block.once and os.path.exists(resolved_path)"
SkipsExisting(f, file_block, resolved_path) ==
    file_block.once /\ Exists(f, resolved_path)

\* Executor.write_file(file_block): the filesystem after it and what it gave
WriteFileCall(f, d, base, allow, dir, file_block) ==
    Bind(ValidatePath(file_block.path, base, allow, dir),
         LAMBDA checked :
            IF ~checked.is_valid
            THEN [fs |-> f, ret |-> Returned(FALSE, checked.error)]
            ELSE IF SkipsExisting(f, file_block, checked.resolved_path)
            THEN [fs |-> f,
                  ret |-> Returned(TRUE, "File already exists, skipping (once=true): "
                                            \o file_block.path)]
            ELSE Bind(IF DirName(checked.resolved_path) # ""
                      THEN Makedirs(f, DirName(checked.resolved_path)) ELSE FsOk(f),
                      LAMBDA dirs :
                        IF dirs.exc # ""
                        THEN [fs |-> dirs.fs, ret |-> Raised(dirs.exc)]
                        ELSE WriteTry(dirs.fs, file_block, checked.resolved_path,
                                      IF file_block.template = "shell"
                                      THEN Substitute(d, file_block.code)
                                      ELSE file_block.code)))

\* The working directory execute_code_block resolves for a block
WorkingDir(base, code_block) ==
    IF code_block.working_dir # None /\ code_block.working_dir[1] # ""
    THEN IF IsAbs(code_block.working_dir[1]) THEN code_block.working_dir[1]
         ELSE PathJoin(base, code_block.working_dir[1])
    ELSE base

\* WorkingDirExists without the test: every directory is taken to exist.
WorkingDirExists_Unchecked(f, working_dir, dir) == TRUE

\* os.path.exists(working_dir), in a process whose working directory is dir
WorkingDirExists(f, working_dir, dir) == Exists(f, AbsPath(working_dir, dir))

ErrorResult(message) == ExecutionResult(FALSE, -1, "", "", Some(message))

MissingDirResult(working_dir) ==
    ErrorResult("Working directory does not exist: " \o working_dir)

TimeoutResult(code_block) ==
    ErrorResult("Command timed out after " \o IntToStr(code_block.timeout) \o " seconds")

LaunchErrorResult(text) == ErrorResult("Execution error: " \o text)

WarningText(text) == "Warning: Failed to write output file: " \o text

\* The out_file capture of execute_code_block: the filesystem after it and
\* the warning it leaves (None when there is none).
CaptureOutFile(f, base, allow, dir, code_block, stdout) ==
    IF ~Truthy(code_block.out_file) THEN [fs |-> f, warning |-> None]
    ELSE Bind(ValidatePath(code_block.out_file[1], base, allow, dir),
              LAMBDA checked :
                IF ~checked.is_valid THEN [fs |-> f, warning |-> None]
                ELSE Bind(IF DirName(checked.resolved_path) # ""
                          THEN Makedirs(f, DirName(checked.resolved_path))
                          ELSE FsOk(f),
                          LAMBDA dirs :
                            IF dirs.exc # ""
                            THEN [fs |-> dirs.fs,
                                  warning |-> Some(WarningText(
                                    ExcText(dirs.exc, DirName(checked.resolved_path))))]
                            ELSE Bind(OpenWrite(dirs.fs, checked.resolved_path, "w", stdout),
                                      LAMBDA wrote :
                                        [fs |-> wrote.fs,
                                         warning |->
                                            IF wrote.exc # ""
                                            THEN Some(WarningText(
                                                ExcText(wrote.exc, checked.resolved_path)))
                                            ELSE None])))

\* CaptureVars that keeps the value a name already has.
CaptureVars_KeepFirst(d, code_block, returncode, stdout, stderr) ==
    LET d1 == IF Truthy(code_block.out_var) /\ code_block.out_var[1] \notin DOMAIN d
              THEN DictSet(d, code_block.out_var[1], Strip(stdout \o stderr))
              ELSE d
    IN  IF Truthy(code_block.code_var) /\ code_block.code_var[1] \notin DOMAIN d1
        THEN DictSet(d1, code_block.code_var[1], IntToStr(returncode))
        ELSE d1

\* The captures of execute_code_block into the Variable Store
CaptureVars(d, code_block, returncode, stdout, stderr) ==
    LET d1 == IF Truthy(code_block.out_var)
              THEN DictSet(d, code_block.out_var[1], Strip(stdout \o stderr))
              ELSE d
    IN  IF Truthy(code_block.code_var)
        THEN DictSet(d1, code_block.code_var[1], IntToStr(returncode))
        ELSE d1

\* SkipsValidation that looks at failed results only.
SkipsValidation_FailedOnly(result) ==
    ~result.success /\ Truthy(result.error_message)

\* execute_and_validate's test of the result: "if result.error_message"
SkipsValidation(result) == Truthy(result.error_message)

\* What the call gives once execute_code_block has returned result: the
\* result itself for execute_code_block, and for execute_and_validate the
\* verdict, which is Validator's unless the result carries an error_message.
Finish(op, code_block, kind, result) ==
    IF op = "execute_code_block"
    THEN Ret(op, code_block, FALSE, "", FALSE, "", kind, result, FALSE)
    ELSE IF SkipsValidation(result)
    THEN Ret(op, code_block, FALSE, "", FALSE, result.error_message[1], kind,
             result, FALSE)
    ELSE Bind(Validate(result, code_block),
              LAMBDA v : Ret(op, code_block, v.raised, v.exc, v.passed, v.message,
                             kind, result, TRUE))

\* ChildAfterTimeout of a wait that gives up without killing the child.
ChildAfterTimeout_NoKill == "running"

\* The state of the child once subprocess.run's timeout has expired: run()
\* kills it and waits for it before raising TimeoutExpired.
ChildAfterTimeout == "killed"

(***************************************************************************)
(* MarkdownParser                                                          *)
(***************************************************************************)
\* The fence marker of Markdown, three backticks. A TLA+ string cannot hold
\* a backtick, so the documents of this model write "~" for it: "~" stands
\* for the backtick wherever it occurs and for nothing else.
Fence == "~~~"

\* The characters of [a-zA-Z0-9_-]
NameChar == Letters \cup Digits \cup {"_", "-"}

\* The first index from i on whose character is not in chars
RECURSIVE RunEnd(_, _, _)
RunEnd(s, i, chars) ==
    IF i <= Len(s) /\ CharAt(s, i) \in chars THEN RunEnd(s, i + 1, chars) ELSE i

\* The first index from i on where p starts in s, 0 when there is none
RECURSIVE Find(_, _, _)
Find(s, p, i) ==
    IF i + Len(p) - 1 > Len(s) THEN 0
    ELSE IF SubSeq(s, i, i + Len(p) - 1) = p THEN i
    ELSE Find(s, p, i + 1)

\* str.lower() of the characters
LowerChar(c) ==
    Bind(Find("ABCDEFGHIJKLMNOPQRSTUVWXYZ", c, 1),
         LAMBDA i : IF c # "" /\ i > 0
                    THEN CharAt("abcdefghijklmnopqrstuvwxyz", i) ELSE c)

RECURSIVE Lower(_)
Lower(s) == IF s = "" THEN "" ELSE LowerChar(Head(s)) \o Lower(Tail(s))

\* s.lstrip("#")
RECURSIVE LStripHash(_)
LStripHash(s) == IF Len(s) > 0 /\ Head(s) = "#" THEN LStripHash(Tail(s)) ELSE s

\* "\n".join(seq)
RECURSIVE JoinLines(_)
JoinLines(seq) ==
    IF seq = <<>> THEN ""
    ELSE IF Len(seq) = 1 THEN seq[1]
    ELSE seq[1] \o "\n" \o JoinLines(Tail(seq))

\* CLASS_PATTERN.finditer: the names after each "."
RECURSIVE FindClasses(_, _, _)
FindClasses(s, i, acc) ==
    IF i > Len(s) THEN acc
    ELSE IF CharAt(s, i) = "." /\ RunEnd(s, i + 1, NameChar) > i + 1
    THEN FindClasses(s, RunEnd(s, i + 1, NameChar),
                     Append(acc, SubSeq(s, i + 1, RunEnd(s, i + 1, NameChar) - 1)))
    ELSE FindClasses(s, i + 1, acc)

\* ID_PATTERN.search: the name after the first "#" that has one
RECURSIVE FindId(_, _)
FindId(s, i) ==
    IF i > Len(s) THEN None
    ELSE IF CharAt(s, i) = "#" /\ RunEnd(s, i + 1, NameChar) > i + 1
    THEN Some(SubSeq(s, i + 1, RunEnd(s, i + 1, NameChar) - 1))
    ELSE FindId(s, i + 1)

\* The value of a DATA_PATTERN match that starts at index v of s, as
\* <<value, index after the match>>: a quoted string (a quote, one or more
\* characters up to the next such quote, which are the value), or else the
\* characters up to a blank or "}"; <<"", 0>> when neither matches.
DataValue(s, v) ==
    Bind(IF v <= Len(s) /\ CharAt(s, v) \in {"\"", "'"}
         THEN Find(s, CharAt(s, v), v + 2) ELSE 0,
         LAMBDA close :
            IF close > 0 THEN <<SubSeq(s, v + 1, close - 1), close + 1>>
            ELSE Bind(RunEnd(s, v, {CharAt(s, k) : k \in v..Len(s)}
                                        \ (Whitespace \cup {"}"})),
                      LAMBDA e : IF e > v THEN <<SubSeq(s, v, e - 1), e>>
                                 ELSE <<"", 0>>))

\* DATA_PATTERN.finditer: attrs["data"][key] = value for each match
RECURSIVE FindData(_, _, _)
FindData(s, i, acc) ==
    IF i > Len(s) THEN acc
    ELSE Bind(RunEnd(s, i + 5, NameChar),
              LAMBDA k :
                IF k > i + 5 /\ k <= Len(s) /\ SubSeq(s, i, i + 4) = "data-"
                   /\ CharAt(s, k) = "="
                   /\ DataValue(s, k + 1)[2] > 0
                THEN FindData(s, DataValue(s, k + 1)[2],
                              DictSet(acc, SubSeq(s, i + 5, k - 1),
                                      DataValue(s, k + 1)[1]))
                ELSE FindData(s, i + 1, acc))

EmptyAttrs == [classes |-> <<>>, id |-> None, data |-> EmptyDict]

\* MarkdownParser._parse_attributes
ParseAttributes(attr_string) ==
    [classes |-> FindClasses(attr_string, 1, <<>>),
     id |-> FindId(attr_string, 1),
     data |-> FindData(attr_string, 1, EmptyDict)]

\* x in seq
InSeq(x, seq) == \E i \in 1..Len(seq) : seq[i] = x

\* int(data.get("timeout", 30))
TimeoutOf(data) ==
    IF "timeout" \in DOMAIN data THEN PyInt(data["timeout"])
    ELSE [raised |-> FALSE, val |-> 30]

\* MarkdownParser._create_code_block: the CodeBlock, or the exception of
\* int()
CreateCodeBlock(code, language, attrs, line_number) ==
    Bind(TimeoutOf(attrs.data),
         LAMBDA timeout :
            [raised |-> timeout.raised,
             block |->
                [code |-> Strip(code),
                 language |-> language,
                 mode |-> DictGet(attrs.data, "mode", "exit"),
                 expected |-> DictGet(attrs.data, "exp",
                                      DictGet(attrs.data, "expected", "0")),
                 timeout |-> timeout.val,
                 working_dir |-> IF "workdir" \in DOMAIN attrs.data
                                 THEN Some(attrs.data["workdir"]) ELSE None,
                 continue_on_error |->
                    Lower(DictGet(attrs.data, "continue-on-error", "")) = "true",
                 line_number |-> line_number,
                 out_var |-> None, out_file |-> None, code_var |-> None]])

\* parser.Step
Step(title, step_id, line_number) ==
    [title |-> title, content |-> "", step_id |-> step_id, code_blocks |-> <<>>,
     file_blocks |-> <<>>, line_number |-> line_number, content_parts |-> <<>>]

\* The entries of Step.content_parts: a str, a CodeBlock or a FileBlock
NoCodeBlock == CodeBlock("", "", "")

NoFileBlock == FileBlock("", "", "write", FALSE, "none", FALSE)

TextPart(text) ==
    [kind |-> "text", text |-> text, block |-> NoCodeBlock, file |-> NoFileBlock]

CodePart(block) ==
    [kind |-> "code", text |-> "", block |-> block, file |-> NoFileBlock]

FilePart(file_block) ==
    [kind |-> "file", text |-> "", block |-> NoCodeBlock, file |-> file_block]

\* A "boolean" attribute value: true when it is "true" in any case
AttrBool(data, key) == Lower(DictGet(data, key, "")) = "true"

\* The FileBlock of a gr-file fence: path from data-path, mode write unless
\* data-mode=append, executable from data-exec or data-executable, template
\* none unless data-template=shell, once from data-once
CreateFileBlock(code, attrs, line_number) ==
    [FileBlock(code,
               DictGet(attrs.data, "path", ""),
               IF DictGet(attrs.data, "mode", "write") = "append"
               THEN "append" ELSE "write",
               AttrBool(attrs.data, "exec") \/ AttrBool(attrs.data, "executable"),
               IF DictGet(attrs.data, "template", "none") = "shell"
               THEN "shell" ELSE "none",
               AttrBool(attrs.data, "once"))
        EXCEPT !.line_number = line_number]

\* A closing fence is that of a file block: gr-file in its class list
IsFileFence(ps) ==
    /\ InSeq("gr-file", ps.code_block_attrs.classes)
    /\ ~InSeq("gr-run", ps.code_block_attrs.classes)

\* The locals of parse_markdown before its loop; line_num counts the lines
\* the loop has read and status is "scanning", "done" or "raised".
ParserStart ==
    [status |-> "scanning", line_num |-> 0,
     tutorial |-> [title |-> "", steps |-> <<>>],
     current_step |-> None, in_code_block |-> FALSE,
     code_block_content |-> <<>>, code_block_attrs |-> EmptyAttrs,
     code_block_lang |-> "bash", code_block_start_line |-> 0,
     current_content_buffer |-> <<>>]

\* FlushBuffer that leaves the flushed lines in the buffer.
FlushBuffer_KeepsBuffer(ps) ==
    IF ps.current_step = None \/ ps.current_content_buffer = <<>> THEN ps
    ELSE Bind(JoinLines(ps.current_content_buffer),
              LAMBDA content_text :
                [ps EXCEPT
                    !.current_step =
                        IF Strip(content_text) # ""
                        THEN Some([ps.current_step[1] EXCEPT
                                !.content_parts = Append(@, TextPart(content_text))])
                        ELSE @])

\* The buffered text of the current step becomes a text part, unless blank
FlushBuffer(ps) ==
    IF ps.current_step = None \/ ps.current_content_buffer = <<>> THEN ps
    ELSE Bind(JoinLines(ps.current_content_buffer),
              LAMBDA content_text :
                [ps EXCEPT
                    !.current_step =
                        IF Strip(content_text) # ""
                        THEN Some([ps.current_step[1] EXCEPT
                                !.content_parts = Append(@, TextPart(content_text))])
                        ELSE @,
                    !.current_content_buffer = <<>>])

\* A line opens a fence: language and attributes of its info string
OpenFence(ps, line, line_num) ==
    Bind(Strip(SubSeq(Strip(line), 4, Len(Strip(line)))),
         LAMBDA parts :
            Bind(RunEnd(parts, 1, {CharAt(parts, k) : k \in 1..Len(parts)} \ Whitespace),
                 LAMBDA e :
                    [FlushBuffer(ps) EXCEPT
                        !.in_code_block = TRUE,
                        !.code_block_content = <<>>,
                        !.code_block_start_line = line_num,
                        !.code_block_lang =
                            IF parts # "" THEN SubSeq(parts, 1, e - 1) ELSE "bash",
                        !.code_block_attrs =
                            IF Contains(LStrip(SubSeq(parts, e, Len(parts))), "{")
                            THEN ParseAttributes(LStrip(SubSeq(parts, e, Len(parts))))
                            ELSE EmptyAttrs]))

\* A line closes the fence: a gr-run fence becomes a CodeBlock of the
\* current step, if there is one
CloseFence(ps) ==
    Bind(IF InSeq("gr-run", ps.code_block_attrs.classes)
         THEN CreateCodeBlock(JoinLines(ps.code_block_content), ps.code_block_lang,
                              ps.code_block_attrs, ps.code_block_start_line)
         ELSE [raised |-> FALSE, block |-> NoCodeBlock],
         LAMBDA made :
            IF made.raised
            THEN [ps EXCEPT !.status = "raised", !.in_code_block = FALSE]
            ELSE [ps EXCEPT
                    !.in_code_block = FALSE,
                    !.current_step =
                        IF InSeq("gr-run", ps.code_block_attrs.classes) /\ @ # None
                        THEN Some([@[1] EXCEPT
                                !.code_blocks = Append(@, made.block),
                                !.content_parts = Append(@, CodePart(made.block))])
                        ELSE @,
                    !.code_block_content = <<>>,
                    !.code_block_attrs = EmptyAttrs,
                    !.code_block_lang = "bash"])

\* CloseFileFence that puts the FileBlock in file_blocks only.
CloseFileFence_Unordered(ps) ==
    [ps EXCEPT
        !.in_code_block = FALSE,
        !.current_step =
            IF @ # None /\ "path" \in DOMAIN ps.code_block_attrs.data
            THEN Some([@[1] EXCEPT
                    !.file_blocks =
                        Append(@, CreateFileBlock(JoinLines(ps.code_block_content),
                                                  ps.code_block_attrs,
                                                  ps.code_block_start_line))])
            ELSE @,
        !.code_block_content = <<>>,
        !.code_block_attrs = EmptyAttrs,
        !.code_block_lang = "bash"]

\* A line closes a gr-file fence: with data-path it becomes a FileBlock of
\* the current step, in file_blocks and in content_parts; without, it is
\* inert
CloseFileFence(ps) ==
    [ps EXCEPT
        !.in_code_block = FALSE,
        !.current_step =
            IF @ # None /\ "path" \in DOMAIN ps.code_block_attrs.data
            THEN Bind(CreateFileBlock(JoinLines(ps.code_block_content),
                                      ps.code_block_attrs, ps.code_block_start_line),
                      LAMBDA file_block :
                        Some([ps.current_step[1] EXCEPT
                                !.file_blocks = Append(@, file_block),
                                !.content_parts = Append(@, FilePart(file_block))]))
            ELSE @,
        !.code_block_content = <<>>,
        !.code_block_attrs = EmptyAttrs,
        !.code_block_lang = "bash"]

\* The attributes of a heading: after "{" on its line, or else those of the
\* next line when that starts with "{"
HeadingAttrs(line, next_line) ==
    IF Contains(line, "{")
    THEN ParseAttributes(SubSeq(line, Find(line, "{", 1), Len(line)))
    ELSE IF next_line # None /\ StartsWith(Strip(next_line[1]), "{")
    THEN ParseAttributes(Strip(next_line[1]))
    ELSE EmptyAttrs

HeadingText(line) ==
    IF Contains(line, "{")
    THEN Strip(LStripHash(Strip(SubSeq(line, 1, Find(line, "{", 1) - 1))))
    ELSE Strip(LStripHash(Strip(line)))

\* Heading that takes a title only before the first step.
Heading_TitleBeforeSteps(ps, line, line_num, next_line) ==
    Bind(HeadingAttrs(line, next_line),
         LAMBDA attrs :
            IF InSeq("gr-step", attrs.classes)
            THEN [FlushBuffer(ps) EXCEPT
                    !.tutorial.steps =
                        IF ps.current_step # None
                        THEN Append(@, FlushBuffer(ps).current_step[1]) ELSE @,
                    !.current_step =
                        Some(Step(HeadingText(line), attrs.id, line_num))]
            ELSE IF /\ ps.tutorial.title = "" /\ StartsWith(Strip(line), "# ")
                    /\ ps.current_step = None
            THEN [ps EXCEPT !.tutorial.title = HeadingText(line)]
            ELSE ps)

\* A heading line: a gr-step heading starts a new step after the previous
\* one is appended to the tutorial; the first other "# " heading gives the
\* title
Heading(ps, line, line_num, next_line) ==
    Bind(HeadingAttrs(line, next_line),
         LAMBDA attrs :
            IF InSeq("gr-step", attrs.classes)
            THEN [FlushBuffer(ps) EXCEPT
                    !.tutorial.steps =
                        IF ps.current_step # None
                        THEN Append(@, FlushBuffer(ps).current_step[1]) ELSE @,
                    !.current_step =
                        Some(Step(HeadingText(line), attrs.id, line_num))]
            ELSE IF ps.tutorial.title = "" /\ StartsWith(Strip(line), "# ")
            THEN [ps EXCEPT !.tutorial.title = HeadingText(line)]
            ELSE ps)

\* Any other line outside a fence is content of the current step
TextLine(ps, line) ==
    IF ps.current_step = None THEN ps
    ELSE [ps EXCEPT
            !.current_step = Some([@[1] EXCEPT !.content = @ \o line \o "\n"]),
            !.current_content_buffer = Append(@, line)]

\* After the loop: the last step is appended, the title defaults
EndOfDocument(ps) ==
    [FlushBuffer(ps) EXCEPT
        !.status = "done",
        !.tutorial.steps =
            IF ps.current_step # None
            THEN Append(@, FlushBuffer(ps).current_step[1]) ELSE @,
        !.tutorial.title = IF @ = "" THEN "Untitled Tutorial" ELSE @]

(***************************************************************************)
(* The Executor as a state machine.  One Executor is constructed, then     *)
(* write_file, execute_code_block and execute_and_validate are called on   *)
(* it one after another.  A call of execute_code_block that launches its   *)
(* command waits inside subprocess.run (pc = "running") until the command  *)
(* exits or the timeout expires.                                           *)
(***************************************************************************)
ValidateIdle ==
    /\ v_result = ExecutionResult(TRUE, 0, "", "", None)
    /\ v_block = CodeBlock("true", "exit", "0")
    /\ v_ret = NoCall

PathIdle ==
    /\ p_path = "" /\ p_base = "" /\ p_allow = FALSE /\ p_ret = NoPathCall

ParseIdle == lines = <<>> /\ parser = ParserStart

SubstIdle == s_store = EmptyDict /\ s_text = "" /\ s_outs = <<>>

\* The defaults of from_cli_and_env's parameters; shows holds the show_*
\* arguments that are not None
NoArgs ==
    [verbosity |-> None, quiet |-> FALSE, verbose_count |-> 0, debug |-> FALSE,
     is_ci |-> FALSE, output_format |-> None, shows |-> EmptyDict]

ConfigIdle == environ = EmptyDict /\ yml = None /\ o_args = NoArgs /\ o_ret = None

\* No GuideRunner
NoRunner == [pc |-> "none"]

AppIdle == ConfigIdle /\ runner = NoRunner

MaxOps == 2

\* The initial_vars the Executor's VariableStore is constructed with
InitialVars == [k \in {"X"} |-> "old"]

InitialFs ==
    [k \in {"/", "/tmp", "/tmp/work", "/etc", "/etc/passwd"} |->
        CASE k = "/" -> Dir(TRUE)
          [] k = "/etc" -> Dir(TRUE)
          [] k = "/etc/passwd" -> File("root\n", FALSE)
          [] OTHER -> Dir(FALSE)]

\* The base_working_dir argument: "" stands for None (os.getcwd() is used)
ExecBases == {"/tmp/work", "/tmp/gone"}

With(block, field, value) == [block EXCEPT ![field] = value]

CodeBlocks ==
    {CodeBlock("echo hi", "contains", "hi"),
     CodeBlock("exit 3", "exit", "3"),
     CodeBlock("true", "exit", "abc"),
     With(CodeBlock("echo ${Y}", "exit", "0"), "out_var", Some("X")),
     With(With(CodeBlock("echo ${X}", "exact", "hi"), "out_var", Some("X")),
          "code_var", Some("Y")),
     With(CodeBlock("echo hi", "exit", "0"), "out_file", Some("out.txt")),
     With(CodeBlock("echo hi", "exit", "0"), "out_file", Some("a/out.txt")),
     With(CodeBlock("echo hi", "exit", "0"), "out_file", Some("../escape.txt")),
     With(CodeBlock("echo hi", "exit", "0"), "out_file", Some("/tmp/abs.txt")),
     With(CodeBlock("pwd", "exit", "0"), "working_dir", Some("/nonexistent")),
     With(With(CodeBlock("sleep 10", "exit", "0"), "working_dir", Some("sub")),
          "timeout", 1),
     With(CodeBlock("pwd", "regex", "("), "working_dir", Some("a"))}

FileBlocks ==
    {FileBlock("x", "a", "write", FALSE, "none", FALSE),
     FileBlock("y", "a/b.txt", "write", FALSE, "none", FALSE),
     FileBlock("#!/bin/sh\n", "sub/f.sh", "append", TRUE, "none", FALSE),
     FileBlock("z", "sub", "write", FALSE, "none", FALSE),
     FileBlock("v=${X}", "t.txt", "write", FALSE, "shell", TRUE),
     FileBlock("w", "/tmp/abs.txt", "write", FALSE, "none", FALSE),
     FileBlock("w", "../work2/x", "write", TRUE, "none", FALSE)}
    \cup {FileBlock("evil", "../../etc/passwd", "write", FALSE, "none", o) :
            o \in BOOLEAN}
    \cup {FileBlock("q", "a", m, e, "none", TRUE) :
            m \in {"write", "append"}, e \in BOOLEAN}

\* What a command that exits may give: <<returncode, stdout, stderr>>
Outcomes ==
    {<<0, "hi\n", "">>, <<0, "", "">>, <<3, "", "e\n">>, <<3, " hi\n", "e\n">>}

ExecOps == {"execute_code_block", "execute_and_validate"}

NoExec == [op |-> "", block |-> <<>>, command |-> "", working_dir |-> ""]

ExecIdle ==
    /\ base_working_dir = "" /\ allow_outside = FALSE /\ variables = EmptyDict
    /\ fs = InitialFs /\ pc = "idle" /\ call = NoExec /\ child = "none"
    /\ exit_status = None /\ ret = NoRet /\ nops = 0

\* Executor.__init__
Init ==
    /\ cwd = "/tmp"
    /\ \E base \in ExecBases :
          base_working_dir = IF base # "" THEN base ELSE cwd
    /\ allow_outside \in BOOLEAN
    /\ variables = InitialVars
    /\ fs = InitialFs
    /\ pc = "idle" /\ call = NoExec /\ child = "none" /\ exit_status = None
    /\ ret = NoRet /\ nops = 0
    /\ ValidateIdle
    /\ PathIdle
    /\ ParseIdle
    /\ SubstIdle
    /\ AppIdle

Others ==
    <<validateVars, cwd, pathVars, parseVars, substVars, appVars, base_working_dir,
      allow_outside>>

\* Executor.write_file
WriteFile(file_block) ==
    /\ pc = "idle" /\ nops < MaxOps
    /\ \E r \in {WriteFileCall(fs, variables, base_working_dir, allow_outside,
                                cwd, file_block)} :
          /\ fs' = r.fs
          /\ ret' = Ret("write_file", file_block, r.ret.raised, r.ret.exc,
                        r.ret.passed, r.ret.message, "", NoResult, FALSE)
    /\ nops' = nops + 1
    /\ UNCHANGED <<Others, variables, pc, call, child, exit_status>>

\* execute_code_block, the working directory does not exist
ExecMissingDir(op, code_block) ==
    /\ pc = "idle" /\ nops < MaxOps
    /\ \E working_dir \in {WorkingDir(base_working_dir, code_block)} :
          /\ ~WorkingDirExists(fs, working_dir, cwd)
          /\ ret' = Finish(op, code_block, "missing_dir", MissingDirResult(working_dir))
    /\ child' = "none" /\ exit_status' = None
    /\ nops' = nops + 1
    /\ UNCHANGED <<Others, variables, fs, pc, call>>

\* execute_code_block, subprocess.run starts the command
ExecLaunch(op, code_block) ==
    /\ pc = "idle" /\ nops < MaxOps
    /\ \E working_dir \in {WorkingDir(base_working_dir, code_block)} :
          /\ WorkingDirExists(fs, working_dir, cwd)
          /\ IsDir(fs, AbsPath(working_dir, cwd))
          /\ call' = [op |-> op, block |-> code_block,
                      command |-> Substitute(variables, code_block.code),
                      working_dir |-> working_dir]
    /\ pc' = "running"
    /\ child' = "running" /\ exit_status' = None
    /\ ret' = NoRet
    /\ nops' = nops + 1
    /\ UNCHANGED <<Others, variables, fs>>

\* execute_code_block, subprocess.run raises before the command runs: the
\* working directory is a file, or the system cannot start a process
ExecLaunchFail(op, code_block) ==
    /\ pc = "idle" /\ nops < MaxOps
    /\ \E working_dir \in {WorkingDir(base_working_dir, code_block)} :
          /\ WorkingDirExists(fs, working_dir, cwd)
          /\ \E exc \in IF IsDir(fs, AbsPath(working_dir, cwd))
                        THEN {"OSError"} ELSE {"NotADirectoryError"} :
                ret' = Finish(op, code_block, "launch_failure",
                              LaunchErrorResult(ExcText(exc, working_dir)))
    /\ child' = "none" /\ exit_status' = None
    /\ nops' = nops + 1
    /\ UNCHANGED <<Others, variables, fs, pc, call>>

\* execute_code_block, the command has exited: the captures, then return
ProcComplete(returncode, stdout, stderr) ==
    /\ pc = "running"
    /\ \E cap \in {CaptureOutFile(fs, base_working_dir, allow_outside, cwd,
                                   call.block, stdout)} :
          /\ fs' = cap.fs
          /\ ret' = Finish(call.op, call.block, "completed",
                           ExecutionResult(returncode = 0, returncode, stdout,
                                           stderr, cap.warning))
    /\ variables' = CaptureVars(variables, call.block, returncode, stdout, stderr)
    /\ pc' = "idle" /\ call' = NoExec /\ child' = "exited"
    /\ exit_status' = Some(returncode)
    /\ UNCHANGED <<Others, nops>>

\* execute_code_block, the command has exited but its output is not text in
\* the encoding of the locale: subprocess.run raises UnicodeDecodeError
\* when it decodes the output, after the child has been waited for
ProcUndecodable(returncode) ==
    /\ pc = "running"
    /\ ret' = Finish(call.op, call.block, "launch_failure",
                     LaunchErrorResult("UnicodeDecodeError"))
    /\ pc' = "idle" /\ call' = NoExec /\ child' = "exited"
    /\ exit_status' = Some(returncode)
    /\ UNCHANGED <<Others, variables, fs, nops>>

\* ProcTimeout that captures the exit status of the killed command.
ProcTimeout_Captures ==
    /\ pc = "running"
    /\ ret' = Finish(call.op, call.block, "timeout", TimeoutResult(call.block))
    /\ variables' = CaptureVars(variables, call.block, 0 - 9, "", "")
    /\ pc' = "idle" /\ call' = NoExec /\ child' = ChildAfterTimeout
    /\ UNCHANGED <<Others, fs, nops, exit_status>>

\* execute_code_block, the timeout expires: subprocess.TimeoutExpired
ProcTimeout ==
    /\ pc = "running"
    /\ ret' = Finish(call.op, call.block, "timeout", TimeoutResult(call.block))
    /\ pc' = "idle" /\ call' = NoExec /\ child' = ChildAfterTimeout
    /\ UNCHANGED <<Others, variables, fs, nops, exit_status>>

Next ==
    \/ \E file_block \in FileBlocks : WriteFile(file_block)
    \/ \E op \in ExecOps, code_block \in CodeBlocks : ExecMissingDir(op, code_block)
    \/ \E op \in ExecOps, code_block \in CodeBlocks : ExecLaunch(op, code_block)
    \/ \E op \in ExecOps, code_block \in CodeBlocks : ExecLaunchFail(op, code_block)
    \/ \E o \in Outcomes : ProcComplete(o[1], o[2], o[3])
    \/ \E o \in Outcomes : ProcUndecodable(o[1])
    \/ ProcTimeout

Spec == Init /\ [][Next]_vars

(***************************************************************************)
(* parse_markdown as a state machine: the document is drawn at the start   *)
(* and each action is one iteration of the loop over its lines.            *)
(***************************************************************************)
MaxFragments == 3

MaxLines == 6

\* The pieces documents are made of: headings, text, and fences with their
\* content
Fragments ==
    {<<"# T">>,
     <<"## Step {.gr-step #s1}">>,
     <<"## Two", "{.gr-step}">>,
     <<"text">>,
     <<Fence>>,
     <<"~~~python", "print(1)", Fence>>,
     <<"~~~bash {.gr-run data-mode=contains data-expected=hi data-workdir=sub}",
       "echo hi", Fence>>,
     <<"~~~bash {.gr-run data-timeout=abc}", Fence>>,
     <<"~~~ sh {.gr-run data-timeout=\"60\" data-continue-on-error=TRUE}",
       "exit 3", Fence>>,
     <<"~~~bash {.gr-run data-mode=exact data-exp=\"\" data-out-var=OUT}", Fence>>,
     <<"~~~bash {data-exp=\".gr-run\"}", "rm x", Fence>>,
     <<"~~~bash {.gr-file data-path=\"s.sh\" data-mode=append data-exec=true}",
       "#!/bin/sh", Fence>>,
     <<"~~~text {.gr-file data-path=t.txt data-template=shell data-once=TRUE}",
       "v=${X}", Fence>>,
     <<"## H {data-x=.gr-step}">>,
     <<"# {#t}">>}

\* The lines of a sequence of fragments
RECURSIVE Flatten(_)
Flatten(fragments) ==
    IF fragments = <<>> THEN <<>> ELSE Head(fragments) \o Flatten(Tail(fragments))

\* The documents: at most MaxFragments fragments and at most MaxLines lines
Documents ==
    {document \in {Flatten(fragments) :
                    fragments \in UNION {[1..n -> Fragments] : n \in 0..MaxFragments}} :
        Len(document) <= MaxLines}

ParseInit ==
    /\ lines \in Documents
    /\ parser = ParserStart
    /\ cwd = "/tmp"
    /\ ValidateIdle
    /\ PathIdle
    /\ ExecIdle
    /\ SubstIdle
    /\ AppIdle

NotParsing == <<validateVars, cwd, pathVars, execVars, substVars, appVars, lines>>

Scanning == parser.status = "scanning" /\ parser.line_num < Len(lines)

ThisLine == lines[parser.line_num + 1]

NextLine ==
    IF parser.line_num + 1 < Len(lines) THEN Some(lines[parser.line_num + 2]) ELSE None

IsFence(line) == StartsWith(Strip(line), Fence)

Advance(ps) == [ps EXCEPT !.line_num = @ + 1]

ParseFenceOpen ==
    /\ Scanning /\ IsFence(ThisLine) /\ ~parser.in_code_block
    /\ parser' = Advance(OpenFence(parser, ThisLine, parser.line_num + 1))
    /\ UNCHANGED NotParsing

ParseFenceClose ==
    /\ Scanning /\ IsFence(ThisLine) /\ parser.in_code_block
    /\ parser' = Advance(IF IsFileFence(parser) THEN CloseFileFence(parser)
                          ELSE CloseFence(parser))
    /\ UNCHANGED NotParsing

ParseFenceLine ==
    /\ Scanning /\ ~IsFence(ThisLine) /\ parser.in_code_block
    /\ parser' = Advance([parser EXCEPT !.code_block_content = Append(@, ThisLine)])
    /\ UNCHANGED NotParsing

ParseHeading ==
    /\ Scanning /\ ~IsFence(ThisLine) /\ ~parser.in_code_block
    /\ StartsWith(Strip(ThisLine), "#")
    /\ parser' = Advance(Heading(parser, ThisLine, parser.line_num + 1, NextLine))
    /\ UNCHANGED NotParsing

ParseText ==
    /\ Scanning /\ ~IsFence(ThisLine) /\ ~parser.in_code_block
    /\ ~StartsWith(Strip(ThisLine), "#")
    /\ parser' = Advance(TextLine(parser, ThisLine))
    /\ UNCHANGED NotParsing

ParseEnd ==
    /\ parser.status = "scanning" /\ parser.line_num = Len(lines)
    /\ parser' = EndOfDocument(parser)
    /\ UNCHANGED NotParsing

ParseNext ==
    \/ ParseFenceOpen
    \/ ParseFenceClose
    \/ ParseFenceLine
    \/ ParseHeading
    \/ ParseText
    \/ ParseEnd

SpecParse == ParseInit /\ [][ParseNext]_vars

(***************************************************************************)
(* Validator.validate as a pure function: the arguments are drawn from the *)
(* sets below and the one action applies it.                               *)
(***************************************************************************)
Modes == {"exit", "contains", "regex", "exact", "unknown", ""}

Expecteds == {"0", "3", "007", " 3 ", "-1", "abc", "", "3.0", "hi", "\\d+", "(", "*a", "^hi$"}

ExitCodes == {0, 1, 3, 7, -1}

Outputs == {"", "hi\n", "err 42\n"}

ValidateInit ==
    /\ v_result \in {ExecutionResult(c = 0, c, out, err, None) :
                        c \in ExitCodes, out \in Outputs, err \in {"", "hi\n"}}
    /\ v_block \in {CodeBlock("true", m, e) : m \in Modes, e \in Expecteds}
    /\ v_ret = NoCall
    /\ cwd = "/tmp"
    /\ PathIdle
    /\ ExecIdle
    /\ ParseIdle
    /\ SubstIdle
    /\ AppIdle

ValidateCall ==
    /\ v_ret = NoCall
    /\ v_ret' = Validate(v_result, v_block)
    /\ UNCHANGED <<v_result, v_block, cwd, pathVars, execVars, parseVars, substVars,
                   appVars>>

ValidateNext == ValidateCall

SpecValidate == ValidateInit /\ [][ValidateNext]_vars

(***************************************************************************)
(* PathSandbox.validate_path as a pure function                            *)
(***************************************************************************)
Paths ==
    {"test.txt", "sub/file.txt", "", ".", "..", "./a", "a//b", "a/../b",
     "../x", "../../etc/passwd", "../../../etc/passwd", "../work2/x",
     "../work/x", "a/../../work/y", "sub/../../..", "/etc/passwd",
     "/tmp/work/x", "//x", "..x", "a/"}

Bases == {"/tmp/work", "/tmp/work/", "/", "//", "work", ".", "/tmp/./a/../work", ""}

Cwds == {"/tmp", "/"}

PathInit ==
    /\ p_path \in Paths
    /\ p_base \in Bases
    /\ p_allow \in BOOLEAN
    /\ cwd \in Cwds
    /\ p_ret = NoPathCall
    /\ ValidateIdle
    /\ ExecIdle
    /\ ParseIdle
    /\ SubstIdle
    /\ AppIdle

ValidatePathCall ==
    /\ ~p_ret.called
    /\ p_ret' = ValidatePath(p_path, p_base, p_allow, cwd)
    /\ UNCHANGED <<p_path, p_base, p_allow, cwd, validateVars, execVars, parseVars,
                   substVars, appVars>>

PathNext == ValidatePathCall

SpecPath == PathInit /\ [][PathNext]_vars

(***************************************************************************)
(* VariableStore.substitute as a pure function: a store and a text are     *)
(* drawn at the start; the action calls substitute, first on the text and  *)
(* then on what the call before gave.                                      *)
(***************************************************************************)
MaxCalls == 2

Texts ==
    {"", "echo hi", "${X}", "a${X}b${Y}", "${Z} ${X}", "${X${Y}}", "$${X}",
     "${X}{Y}", "${1X} ${} $X {X}", "${X_1}${X}", "${X", "${X}${X}"}

Stores ==
    {EmptyDict,
     [k \in {"X"} |-> "1"],
     [k \in {"X", "Y"} |-> IF k = "X" THEN "hi" ELSE ""],
     [k \in {"X", "Y"} |-> IF k = "X" THEN "1" ELSE "${X}"],
     [k \in {"X", "Y"} |-> IF k = "X" THEN "$" ELSE "v"],
     [k \in {"X", "Y"} |-> IF k = "X" THEN "{Y}" ELSE "v"],
     [k \in {"Y", "XZ", "X_1"} |-> IF k = "Y" THEN "Z" ELSE "v"]}

SubstInit ==
    /\ s_store \in Stores
    /\ s_text \in Texts
    /\ s_outs = <<>>
    /\ cwd = "/tmp"
    /\ ValidateIdle
    /\ PathIdle
    /\ ExecIdle
    /\ ParseIdle
    /\ AppIdle

\* store.substitute(text), the store is only read
SubstituteCall ==
    /\ Len(s_outs) < MaxCalls
    /\ s_outs' = Append(s_outs, Substitute(s_store, IF s_outs = <<>> THEN s_text
                                                     ELSE s_outs[Len(s_outs)]))
    /\ UNCHANGED <<s_store, s_text, validateVars, cwd, pathVars, execVars, parseVars,
                   appVars>>

SubstNext == SubstituteCall

SpecSubst == SubstInit /\ [][SubstNext]_vars

(***************************************************************************)
(* OutputConfig (src/src/guiderails/config.py).  A VerbosityLevel is the   *)
(* string of its value, an OutputConfig is the record of its fields.  The  *)
(* environment and the configuration file are drawn at the start; the      *)
(* action is one call of from_cli_and_env.  A value of the YAML mapping is *)
(* a record that tells its type.                                           *)
(***************************************************************************)
Levels == {"quiet", "normal", "verbose", "debug"}

\* VerbosityLevel.from_string
FromString(value) ==
    Bind(Lower(value),
         LAMBDA lowered : IF lowered \in Levels THEN lowered ELSE "normal")

Toggles ==
    {"show_commands", "show_substituted", "show_expected", "show_captured",
     "show_timestamps", "show_step_banners", "show_previews"}

\* OutputConfig._apply_verbosity_presets
ApplyVerbosityPresets(config) ==
    CASE config.verbosity = "quiet" ->
            [config EXCEPT !.show_step_banners = FALSE, !.show_previews = FALSE,
                           !.show_timestamps = FALSE, !.show_substituted = FALSE]
      [] config.verbosity = "normal" ->
            [config EXCEPT !.show_step_banners = TRUE, !.show_previews = FALSE,
                           !.show_timestamps = FALSE, !.show_substituted = FALSE]
      [] config.verbosity \in {"verbose", "debug"} ->
            [config EXCEPT !.show_step_banners = TRUE, !.show_previews = TRUE,
                           !.show_timestamps = TRUE, !.show_substituted = TRUE]

\* OutputConfig(): the defaults of the dataclass, then __post_init__
OutputConfig ==
    ApplyVerbosityPresets(
        [verbosity |-> "normal", show_commands |-> TRUE, show_substituted |-> TRUE,
         show_expected |-> TRUE, show_captured |-> TRUE, show_timestamps |-> FALSE,
         show_step_banners |-> TRUE, show_previews |-> TRUE, is_ci |-> FALSE,
         output_format |-> "text"])

\* The environment variable of each toggle
EnvVars ==
    [show_commands |-> "GUIDERAILS_SHOW_COMMANDS",
     show_substituted |-> "GUIDERAILS_SHOW_SUBSTITUTED",
     show_expected |-> "GUIDERAILS_SHOW_EXPECTED",
     show_captured |-> "GUIDERAILS_SHOW_CAPTURED",
     show_timestamps |-> "GUIDERAILS_TIMESTAMPS",
     show_step_banners |-> "GUIDERAILS_STEP_BANNERS",
     show_previews |-> "GUIDERAILS_PREVIEWS"]

\* OutputConfig._apply_env_overrides
ApplyEnvOverrides(config, env) ==
    [k \in DOMAIN config |->
        IF k \in Toggles /\ EnvVars[k] \in DOMAIN env
        THEN Lower(env[EnvVars[k]]) \in {"true", "1", "yes", "on"}
        ELSE config[k]]

YamlStr(s) == [type |-> "str", str |-> s, bool |-> FALSE]

YamlBool(b) == [type |-> "bool", str |-> "", bool |-> b]

YamlInt == [type |-> "int", str |-> "", bool |-> FALSE]

\* OutputConfig._parse_config_file on the mapping of the file: a verbosity
\* that is not a str has no lower(), and the except clause gives None
ParseConfigFile(data) ==
    IF "verbosity" \in DOMAIN data /\ data["verbosity"].type # "str" THEN None
    ELSE Some([k \in DOMAIN OutputConfig |->
                IF k = "verbosity" /\ k \in DOMAIN data
                THEN FromString(data[k].str)
                ELSE IF k \in Toggles /\ k \in DOMAIN data /\ data[k].type = "bool"
                THEN data[k].bool
                ELSE OutputConfig[k]])

\* OutputConfig._load_config_file
LoadConfigFile(file) == IF file = None THEN None ELSE ParseConfigFile(file[1])

\* DetermineVerbosityLevel that looks at --quiet before --debug.
DetermineVerbosityLevel_QuietFirst(verbosity, quiet, verbose_count, debug, config_level, env) ==
    IF Truthy(verbosity) THEN FromString(verbosity[1])
    ELSE IF quiet THEN "quiet"
    ELSE IF debug THEN "debug"
    ELSE IF verbose_count >= 3 THEN "debug"
    ELSE IF verbose_count = 2 THEN "verbose"
    ELSE IF verbose_count = 1 THEN "verbose"
    ELSE IF DictGet(env, "GUIDERAILS_VERBOSITY", "") # ""
    THEN FromString(env["GUIDERAILS_VERBOSITY"])
    ELSE IF config_level # None THEN config_level[1]
    ELSE "normal"

\* OutputConfig._determine_verbosity_level
DetermineVerbosityLevel(verbosity, quiet, verbose_count, debug, config_level, env) ==
    IF Truthy(verbosity) THEN FromString(verbosity[1])
    ELSE IF debug THEN "debug"
    ELSE IF quiet THEN "quiet"
    ELSE IF verbose_count >= 3 THEN "debug"
    ELSE IF verbose_count = 2 THEN "verbose"
    ELSE IF verbose_count = 1 THEN "verbose"
    ELSE IF DictGet(env, "GUIDERAILS_VERBOSITY", "") # ""
    THEN FromString(env["GUIDERAILS_VERBOSITY"])
    ELSE IF config_level # None THEN config_level[1]
    ELSE "normal"

\* from_cli_and_env, the CI default: result is the object config when there
\* is a configuration file, so config.verbosity is read after level has
\* been assigned to it
CiDefault(args, env, config, result) ==
    /\ args.is_ci /\ args.verbosity = None /\ ~args.quiet
    /\ args.verbose_count = 0 /\ ~args.debug
    /\ DictGet(env, "GUIDERAILS_VERBOSITY", "") = ""
    /\ (config = None \/ result.verbosity = "normal")

\* from_cli_and_env, the show_* arguments that are not None
ApplyCliToggles(config, shows) ==
    [k \in DOMAIN config |-> IF k \in DOMAIN shows THEN shows[k] ELSE config[k]]

\* OutputConfig.from_cli_and_env
FromCliAndEnv(args, env, file) ==
    Bind(LoadConfigFile(file),
         LAMBDA config :
            Bind([(IF config # None THEN config[1] ELSE OutputConfig)
                    EXCEPT !.verbosity =
                              DetermineVerbosityLevel(
                                  args.verbosity, args.quiet, args.verbose_count,
                                  args.debug,
                                  IF config # None THEN Some(config[1].verbosity)
                                  ELSE None,
                                  env),
                           !.is_ci = args.is_ci],
                 LAMBDA result :
                    Bind(ApplyVerbosityPresets(
                            IF CiDefault(args, env, config, result)
                            THEN [result EXCEPT !.verbosity = "quiet"]
                            ELSE result),
                         LAMBDA preset :
                            Bind(ApplyEnvOverrides(preset, env),
                                 LAMBDA overridden :
                                    Bind(ApplyCliToggles(overridden, args.shows),
                                         LAMBDA set :
                                            IF Truthy(args.output_format)
                                            THEN [set EXCEPT !.output_format =
                                                        args.output_format[1]]
                                            ELSE set)))))

MaxVerbose == 3

\* An optional entry of a mapping
Entry(key, value) == IF value = None THEN EmptyDict ELSE key :> value[1]

\* The environments: GUIDERAILS_VERBOSITY and the variable of one toggle,
\* each set or not
Environs ==
    {Entry("GUIDERAILS_VERBOSITY", level) @@ Entry(EnvVars[toggle], value) :
        level \in {None, Some(""), Some("normal"), Some("Verbose")},
        toggle \in Toggles,
        value \in {None, Some("ON"), Some("false")}}

\* The configuration files: none, or a mapping with a verbosity and one
\* toggle, each given or not
ConfigFiles ==
    {None} \cup
    {Some(Entry("verbosity", level) @@ Entry(toggle, value)) :
        level \in {None, Some(YamlStr("normal")), Some(YamlStr("debug")),
                   Some(YamlInt)},
        toggle \in Toggles,
        value \in {None, Some(YamlBool(TRUE)), Some(YamlBool(FALSE))}}

Verbosities ==
    {None, Some("quiet"), Some("normal"), Some("verbose"), Some("DEBUG"),
     Some("loud")}

\* The toggles that the environment or the configuration file sets
SetToggles(env, file) ==
    {toggle \in Toggles :
        \/ EnvVars[toggle] \in DOMAIN env
        \/ file # None /\ toggle \in DOMAIN file[1]}

\* The calls: with the flags --quiet, --debug and -v and no toggle
\* anywhere, or without them and with at most one show_* argument, that of
\* the toggle the environment or the file sets when they set one
Calls(env, file) ==
    {[NoArgs EXCEPT !.verbosity = verbosity, !.quiet = quiet,
                    !.verbose_count = verbose_count, !.debug = debug,
                    !.is_ci = is_ci, !.output_format = Some("text")] :
        verbosity \in Verbosities, quiet \in BOOLEAN,
        verbose_count \in IF SetToggles(env, file) = {} THEN 0..MaxVerbose ELSE {0},
        debug \in IF SetToggles(env, file) = {} THEN BOOLEAN ELSE {FALSE},
        is_ci \in BOOLEAN}
    \cup
    {[NoArgs EXCEPT !.verbosity = verbosity, !.is_ci = is_ci,
                    !.output_format = Some("jsonl"),
                    !.shows = toggle :> value] :
        verbosity \in {None, Some("quiet"), Some("verbose")}, is_ci \in BOOLEAN,
        toggle \in IF SetToggles(env, file) = {} THEN Toggles
                   ELSE SetToggles(env, file),
        value \in BOOLEAN}

ConfigInit ==
    /\ environ \in Environs
    /\ yml \in ConfigFiles
    /\ \A a \in SetToggles(environ, yml), b \in SetToggles(environ, yml) : a = b
    /\ o_args = NoArgs
    /\ o_ret = None
    /\ runner = NoRunner
    /\ cwd = "/tmp"
    /\ ValidateIdle
    /\ PathIdle
    /\ ExecIdle
    /\ ParseIdle
    /\ SubstIdle

\* OutputConfig.from_cli_and_env(...)
FromCliAndEnvCall ==
    /\ o_ret = None
    /\ \E args \in Calls(environ, yml) :
          /\ o_args' = args
          /\ o_ret' = Some(FromCliAndEnv(args, environ, yml))
    /\ UNCHANGED <<environ, yml, runner, validateVars, cwd, pathVars, execVars,
                   parseVars, substVars>>

ConfigNext == FromCliAndEnvCall

SpecConfig == ConfigInit /\ [][ConfigNext]_vars

(***************************************************************************)
(* GuideRunner (src/src/guiderails/cli.py).  A part of a step is a text    *)
(* span, a FileBlock or a CodeBlock, of which the runner reads its kind    *)
(* and continue_on_error.  The Executor is the environment: write_file     *)
(* succeeds or not, execute_and_validate passes, fails or raises.  ran is  *)
(* the history of the run: one entry per call of _run_step, with the calls *)
(* of the Executor it made and what it returned.                           *)
(***************************************************************************)
\* A Step as the parser leaves it: code_blocks and file_blocks hold the
\* blocks of content_parts, in their order
RunStep(content_parts) ==
    LET codes == SelectSeq(content_parts, LAMBDA part : part.kind = "code")
        files == SelectSeq(content_parts, LAMBDA part : part.kind = "file")
    IN  [Step("S", None, 1) EXCEPT
            !.content_parts = content_parts,
            !.code_blocks = [i \in 1..Len(codes) |-> codes[i].block],
            !.file_blocks = [i \in 1..Len(files) |-> files[i].file]]

MaxSteps == 2

\* A CodeBlock with its continue_on_error
Command(continue_on_error) ==
    CodePart([CodeBlock("make", "exit", "0")
                EXCEPT !.continue_on_error = continue_on_error])

\* A FileBlock
Script == FilePart(FileBlock("x", "f.txt", "write", FALSE, "none", FALSE))

StepShapes ==
    {<<>>,
     <<Command(FALSE)>>,
     <<TextPart("t"), Command(TRUE), Script>>,
     <<Command(FALSE), TextPart("t"), Script>>,
     <<Script, Command(FALSE)>>,
     <<Command(TRUE), Command(FALSE)>>}

Tutorials ==
    UNION {[1..n -> {RunStep(shape) : shape \in StepShapes}] : n \in 0..MaxSteps}

\* GuideRunner(tutorial, guided=..., output_config=...)
GuideRunner(tutorial, guided, show_step_banners) ==
    [pc |-> "run", tutorial |-> tutorial, guided |-> guided,
     show_step_banners |-> show_step_banners, idx |-> 0, part |-> 0,
     step_passed |-> TRUE, all_passed |-> TRUE, failed_steps |-> <<>>,
     ran |-> <<>>, ret |-> None]

\* The next part of the step that is a block, from part on: the loop of
\* _execute_and_display_results does nothing on a text span
NextBlock(step, part) ==
    IF \E i \in part..Len(step.content_parts) : step.content_parts[i].kind # "text"
    THEN CHOOSE i \in part..Len(step.content_parts) :
            /\ step.content_parts[i].kind # "text"
            /\ \A j \in part..(i - 1) : step.content_parts[j].kind = "text"
    ELSE Len(step.content_parts) + 1

\* The entry of ran of the step in progress, with one more Executor call
Called(r, ok) ==
    [r.ran EXCEPT ![Len(r.ran)].calls = Append(@, [part |-> r.part, ok |-> ok])]

\* run, from the return of _run_step: the rest of the loop body, then the
\* next step or the summary and the return
AfterStep(r, step_passed) ==
    LET step == r.tutorial[r.idx]
        all_passed == r.all_passed /\ step_passed
        failed_steps == IF step_passed THEN r.failed_steps
                        ELSE Append(r.failed_steps, r.idx)
        breaks == /\ ~step_passed
                  /\ \/ step.code_blocks = <<>>
                     \/ ~\E i \in 1..Len(step.code_blocks) :
                             step.code_blocks[i].continue_on_error
                  /\ ~r.guided
        ran == [r.ran EXCEPT ![Len(r.ran)].passed = Some(step_passed)]
    IN  IF breaks \/ r.idx = Len(r.tutorial)
        THEN [r EXCEPT !.pc = "returned", !.all_passed = all_passed,
                       !.failed_steps = failed_steps, !.ran = ran,
                       !.ret = Some(all_passed)]
        ELSE [r EXCEPT !.pc = "step", !.idx = r.idx + 1,
                       !.all_passed = all_passed,
                       !.failed_steps = failed_steps, !.ran = ran]

\* _execute_and_display_results, from the end of one iteration: the next
\* block, or the end of the loop and the return to run
AfterBlock(r, breaks) ==
    LET step == r.tutorial[r.idx]
        next == NextBlock(step, r.part + 1)
    IN  IF breaks \/ next > Len(step.content_parts)
        THEN AfterStep(r, r.step_passed)
        ELSE [r EXCEPT !.part = next]

\* _execute_and_display_results, a FileBlock after write_file has returned
AfterFileBlock(r, success) ==
    AfterBlock([r EXCEPT !.step_passed = IF r.show_step_banners
                                         THEN IF success THEN @ ELSE FALSE
                                         ELSE IF success THEN @ ELSE FALSE,
                         !.ran = Called(r, success)],
               FALSE)

\* AfterCodeBlock that marks the step in quiet output whatever
\* continue_on_error says.
AfterCodeBlock_QuietMarks(r, validation_passed) ==
    LET part == r.tutorial[r.idx].content_parts[r.part]
    IN  AfterBlock(
            [r EXCEPT !.step_passed =
                        IF r.show_step_banners
                        THEN IF validation_passed \/ part.block.continue_on_error
                             THEN @ ELSE FALSE
                        ELSE IF validation_passed THEN @ ELSE FALSE,
                      !.ran = Called(r, validation_passed)],
            ~validation_passed /\ ~part.block.continue_on_error)

\* AfterCodeBlock that goes on to the next block after every failure.
AfterCodeBlock_NoBreak(r, validation_passed) ==
    LET part == r.tutorial[r.idx].content_parts[r.part]
    IN  AfterBlock(
            [r EXCEPT !.step_passed =
                        IF r.show_step_banners
                        THEN IF validation_passed \/ part.block.continue_on_error
                             THEN @ ELSE FALSE
                        ELSE IF validation_passed \/ part.block.continue_on_error
                             THEN @ ELSE FALSE,
                      !.ran = Called(r, validation_passed)],
            FALSE)

\* _execute_and_display_results, a CodeBlock after execute_and_validate has
\* returned: the banner branch and the quiet branch
AfterCodeBlock(r, validation_passed) ==
    LET part == r.tutorial[r.idx].content_parts[r.part]
    IN  AfterBlock(
            [r EXCEPT !.step_passed =
                        IF r.show_step_banners
                        THEN IF validation_passed \/ part.block.continue_on_error
                             THEN @ ELSE FALSE
                        ELSE IF validation_passed \/ part.block.continue_on_error
                             THEN @ ELSE FALSE,
                      !.ran = Called(r, validation_passed)],
            ~validation_passed /\ ~part.block.continue_on_error)

\* The entry of ran for a call of _run_step
Ran(idx, passed) == [idx |-> idx, calls |-> <<>>, passed |-> passed]

RunInit ==
    /\ \E tutorial \in Tutorials, guided \in BOOLEAN, show_step_banners \in BOOLEAN :
          runner = GuideRunner(tutorial, guided, show_step_banners)
    /\ ConfigIdle
    /\ cwd = "/tmp"
    /\ ValidateIdle
    /\ PathIdle
    /\ ExecIdle
    /\ ParseIdle
    /\ SubstIdle

RunOthers ==
    UNCHANGED <<configVars, validateVars, cwd, pathVars, execVars, parseVars,
                substVars>>

\* runner.run(), up to the loop over the steps
Run ==
    /\ runner.pc = "run"
    /\ runner' = IF runner.tutorial = <<>>
                 THEN [runner EXCEPT !.pc = "returned", !.ret = Some(TRUE)]
                 ELSE [runner EXCEPT !.pc = "step", !.idx = 1, !.all_passed = TRUE]
    /\ RunOthers

\* _run_step on a step without blocks
RunStepNoBlocks ==
    /\ runner.pc = "step"
    /\ LET step == runner.tutorial[runner.idx]
       IN  /\ ~(Len(step.code_blocks) > 0 \/ Len(step.file_blocks) > 0)
           /\ runner' = AfterStep([runner EXCEPT !.ran =
                                      Append(@, Ran(runner.idx, None))], TRUE)
    /\ RunOthers

\* _run_step in guided mode, Confirm.ask answered no
RunStepSkipped ==
    /\ runner.pc = "step"
    /\ LET step == runner.tutorial[runner.idx]
       IN  /\ Len(step.code_blocks) > 0 \/ Len(step.file_blocks) > 0
           /\ runner.guided
           /\ runner' = AfterStep([runner EXCEPT !.ran =
                                      Append(@, Ran(runner.idx, None))], TRUE)
    /\ RunOthers

\* _run_step up to the first block of _execute_and_display_results: in
\* guided mode Confirm.ask answered yes
RunStepExecute ==
    /\ runner.pc = "step"
    /\ LET step == runner.tutorial[runner.idx]
       IN  /\ Len(step.code_blocks) > 0 \/ Len(step.file_blocks) > 0
           /\ runner' = [runner EXCEPT !.pc = "blocks", !.step_passed = TRUE,
                                       !.part = NextBlock(step, 1),
                                       !.ran = Append(@, Ran(runner.idx, None))]
    /\ RunOthers

\* The loop body on a FileBlock: executor.write_file succeeds or fails
WriteFileBlock ==
    /\ runner.pc = "blocks"
    /\ runner.tutorial[runner.idx].content_parts[runner.part].kind = "file"
    /\ \E success \in BOOLEAN : runner' = AfterFileBlock(runner, success)
    /\ RunOthers

\* The loop body on a CodeBlock: executor.execute_and_validate returns
ExecuteCodeBlock ==
    /\ runner.pc = "blocks"
    /\ runner.tutorial[runner.idx].content_parts[runner.part].kind = "code"
    /\ \E validation_passed \in BOOLEAN :
          runner' = AfterCodeBlock(runner, validation_passed)
    /\ RunOthers

\* The loop body on a CodeBlock: executor.execute_and_validate raises, and
\* nothing in GuideRunner catches it
ExecuteCodeBlockRaises ==
    /\ runner.pc = "blocks"
    /\ runner.tutorial[runner.idx].content_parts[runner.part].kind = "code"
    /\ runner' = [runner EXCEPT !.pc = "raised"]
    /\ RunOthers

RunNext ==
    \/ Run
    \/ RunStepNoBlocks
    \/ RunStepSkipped
    \/ RunStepExecute
    \/ WriteFileBlock
    \/ ExecuteCodeBlock
    \/ ExecuteCodeBlockRaises

SpecRun == RunInit /\ [][RunNext]_vars

(***************************************************************************)
(* Properties                                                              *)
(***************************************************************************)
\* The components of a path
PathComps(path) == SelectSeq(SplitSep(path, "", <<>>), LAMBDA c : c # "")

\* A normalized absolute path is base_abs or a descendant of it: same root,
\* and base_abs's components are the first components of the path.
IsWithin(resolved, base_abs) ==
    LET rc == PathComps(resolved)
        bc == PathComps(base_abs)
    IN  /\ InitialSlashes(resolved) = InitialSlashes(base_abs)
        /\ Len(bc) <= Len(rc)
        /\ SubSeq(rc, 1, Len(bc)) = bc

\* The normalized resolution of a relative path against a base directory
Resolution(path, base, dir) == AbsPath(PathJoin(base, path), dir)

\* C1: Validator.validate never raises: whatever the result, the mode and
\* the expected string, the call returns a (bool, str) pair.
C1_ValidateNeverRaises == v_ret.called => ~v_ret.raised

\* C2: parse_markdown never raises, whatever the text: a malformed
\* attribute value such as a non-numeric data-timeout gives a Tutorial with
\* defaults, not an exception.
C2_ParseNeverRaises == parser.status # "raised"

\* C3: with allow_outside false no call changes a file or directory outside
\* the base working directory, and write_file with a path that is absolute
\* or resolves outside the base returns (False, message) and leaves the
\* filesystem as it was.
C3_NoWriteOutsideBase ==
    [][~allow_outside =>
        LET base_abs == AbsPath(base_working_dir, cwd)
        IN  /\ \A path \in DOMAIN fs' :
                  Node(fs', path) # Node(fs, path) => IsWithin(path, base_abs)
            /\ (nops' = nops + 1 /\ ret'.op = "write_file"
                /\ (IsAbs(ret'.block.path)
                    \/ ~IsWithin(Resolution(ret'.block.path, base_working_dir, cwd),
                                 base_abs)))
               => (fs' = fs /\ ~ret'.raised /\ ~ret'.passed /\ ret'.message # "")]_vars

C3_Witness ==
    /\ ~allow_outside /\ ret.op = "write_file"
    /\ ret.block.path = "../../etc/passwd" /\ ret.block.once
    /\ ~ret.raised /\ ~ret.passed

\* C4: with allow_outside false validate_path gives invalid, with the
\* absolute-path error, for an absolute path and invalid, with the
\* traversal error, for a relative path that resolves outside base_dir; a
\* valid result's resolved path is base_dir or under it.
C4_OutsideIsInvalid ==
    (p_ret.called /\ ~p_allow) =>
        LET base_abs == AbsPath(p_base, cwd)
            outside == ~IsWithin(Resolution(p_path, p_base, cwd), base_abs)
        IN  /\ IsAbs(p_path) => p_ret = PathResult(FALSE, "", AbsoluteError)
            /\ (~IsAbs(p_path) /\ outside)
                  => p_ret = PathResult(FALSE, "", TraversalError(p_path))
            /\ p_ret.is_valid => IsWithin(p_ret.resolved_path, base_abs)

C4_Witness ==
    /\ p_ret.called /\ ~p_allow /\ p_base = "/tmp/work" /\ p_path = "../work2/x"
    /\ p_ret = PathResult(FALSE, "", TraversalError("../work2/x"))

\* C5: with allow_outside false validate_path gives (True, resolved path,
\* "") for every relative path that resolves to base_dir or under it, also
\* when base_dir is a filesystem root.
C5_InsideIsValid ==
    (p_ret.called /\ ~p_allow /\ ~IsAbs(p_path)
        /\ IsWithin(Resolution(p_path, p_base, cwd), AbsPath(p_base, cwd)))
    => p_ret = PathResult(TRUE, Resolution(p_path, p_base, cwd), "")

\* C6: write_file never raises to its caller: every filesystem failure is
\* returned as (False, message).
C6_WriteFileNeverRaises == ret.op = "write_file" => ~ret.raised

\* C7: when the command ran and only the out_file capture failed,
\* execute_and_validate reports the Validator's verdict for the process
\* output and not a failure on account of the warning.
C7_WarningKeepsVerdict ==
    (ret.op = "execute_and_validate" /\ ret.kind = "completed"
        /\ ret.result.error_message # None)
    => LET v == Validate(ret.result, ret.block)
       IN  /\ ret.result.success = (ret.result.exit_code = 0)
           /\ ret.raised = v.raised /\ ret.passed = v.passed
           /\ ret.message = v.message

\* The ExecutionResult of an execution error, with a message of one kind
IsErrorResult(result, prefix) ==
    /\ ~result.success /\ result.exit_code = -1
    /\ result.stdout = "" /\ result.stderr = ""
    /\ result.error_message # None
    /\ StartsWith(result.error_message[1], prefix)
    /\ \A other \in {"Working directory does not exist: ",
                     "Command timed out after ", "Execution error: "} \ {prefix} :
          ~StartsWith(result.error_message[1], other)

\* C8: execute_code_block never raises: a missing working directory, a
\* timeout and a launch failure each give a failed ExecutionResult with
\* exit_code -1, no output and a message of their own kind, and with a
\* missing working directory no process is launched.
C8_ExecErrorsAreResults ==
    ret.op \in ExecOps =>
        /\ ret.op = "execute_code_block" => ~ret.raised
        /\ ret.raised => ret.validated
        /\ ret.kind \in {"missing_dir", "timeout", "launch_failure", "completed"}
        /\ ret.kind = "missing_dir"
              => IsErrorResult(ret.result, "Working directory does not exist: ")
        /\ ret.kind = "timeout" => IsErrorResult(ret.result, "Command timed out after ")
        /\ ret.kind = "launch_failure" => IsErrorResult(ret.result, "Execution error: ")
        /\ ~Exists(fs, AbsPath(WorkingDir(base_working_dir, ret.block), cwd))
              => (ret.kind = "missing_dir" /\ child = "none")

C8_Witness ==
    /\ ret.op = "execute_code_block" /\ ret.kind = "missing_dir"
    /\ ret.block.working_dir = Some("/nonexistent")
    /\ child = "none" /\ ~ret.raised

DecimalValues(s) ==
    {n \in -20..300 :
        \E k \in 0..2 :
            s = (IF n < 0 THEN "-" ELSE "") \o SubSeq("00", 1, k)
                    \o NatToStr(IF n < 0 THEN 0 - n ELSE n)}

\* C11: in exit mode with expected the decimal string of an integer N,
\* zero-padded or not, validate passes exactly when the exit code equals N,
\* and the message of a mismatch contains the actual and the expected value.
C11_ExitModeComparesIntegers ==
    (v_ret.called /\ v_block.mode = "exit") =>
        \A n \in DecimalValues(v_block.expected) :
            /\ ~v_ret.raised
            /\ v_ret.passed <=> (v_result.exit_code = n)
            /\ ~v_ret.passed =>
                  /\ Contains(v_ret.message, IntToStr(v_result.exit_code))
                  /\ Contains(v_ret.message, IntToStr(n))

C11_Witness ==
    /\ v_ret.called /\ v_block.mode = "exit" /\ v_block.expected = "007"
    /\ v_result.exit_code = 7 /\ v_ret.passed

\* C12: when a launched command has exited, whatever its exit status,
\* the Variable Store holds the trimmed stdout+stderr under the block's
\* out_var and the decimal string of the exit status under its code_var,
\* for each of the two that the block requests.
C12_CapturesStored ==
    (ret.op \in ExecOps /\ pc = "idle" /\ child = "exited") =>
        /\ Truthy(ret.block.code_var) =>
              /\ ret.block.code_var[1] \in DOMAIN variables
              /\ variables[ret.block.code_var[1]] = IntToStr(exit_status[1])
        /\ (Truthy(ret.block.out_var) /\ ret.block.out_var # ret.block.code_var) =>
              /\ ret.block.out_var[1] \in DOMAIN variables
              /\ ret.kind = "completed" =>
                    variables[ret.block.out_var[1]]
                        = Strip(ret.result.stdout \o ret.result.stderr)

\* text with every occurrence of token, from the left, replaced by value
RECURSIVE ReplaceAll(_, _, _)
ReplaceAll(text, token, value) ==
    IF Len(text) < Len(token) THEN text
    ELSE IF StartsWith(text, token)
    THEN value \o ReplaceAll(SubSeq(text, Len(token) + 1, Len(text)), token, value)
    ELSE Head(text) \o ReplaceAll(Tail(text), token, value)

\* text with the token ${name} of every name in names replaced by d[name];
\* the order of the names does not matter when no value holds "$"
RECURSIVE ReplaceEach(_, _, _)
ReplaceEach(d, text, names) ==
    IF names = {} THEN text
    ELSE LET name == CHOOSE n \in names : TRUE
         IN  ReplaceEach(d, ReplaceAll(text, "${" \o name \o "}", d[name]),
                         names \ {name})

\* The content write_file writes for a block, given the text after templating
Written(text) == IF EndsWith(text, "\n") THEN text ELSE text \o "\n"

\* C13: blocks run one after another on one Executor and each sees the
\* Variable Store as the blocks before it left it: no call starts while a
\* command runs; the store changes only when a command completes, and then
\* holds the captured values under the names the block requests and is
\* unchanged elsewhere; every command launched, and every template=shell
\* file written, has each ${X} replaced by the value the store holds for X
\* at that moment, which is the most recent capture.
C13_LaterBlocksSeeCaptures ==
    [][/\ pc = "running" => (nops' = nops /\ pc' = "idle")
       /\ (pc = "running" /\ ret'.kind = "completed") =>
             /\ (Truthy(ret'.block.out_var)
                    /\ ret'.block.out_var # ret'.block.code_var) =>
                   variables'[ret'.block.out_var[1]]
                        = Strip(ret'.result.stdout \o ret'.result.stderr)
             /\ Truthy(ret'.block.code_var) =>
                   variables'[ret'.block.code_var[1]]
                        = IntToStr(ret'.result.exit_code)
             /\ \A name \in DOMAIN variables :
                   (Some(name) \notin {ret'.block.out_var, ret'.block.code_var})
                      => (name \in DOMAIN variables'
                            /\ variables'[name] = variables[name])
       /\ ~(pc = "running" /\ ret'.kind = "completed") => variables' = variables
       /\ (pc = "idle" /\ pc' = "running") =>
             call'.command = ReplaceEach(variables, call'.block.code, DOMAIN variables)
       /\ (nops' = nops + 1 /\ ret'.op = "write_file" /\ ret'.passed
             /\ ret'.block.template = "shell" /\ StartsWith(ret'.message, "Wrote ")) =>
             EndsWith(Node(fs', ValidatePath(ret'.block.path, base_working_dir,
                                            allow_outside, cwd).resolved_path).content,
                      Written(ReplaceEach(variables, ret'.block.code,
                                          DOMAIN variables)))]_vars

C13_Witness ==
    /\ pc = "running" /\ nops = 2
    /\ call.block.code = "echo ${X}" /\ call.command = "echo hi"
    /\ variables["X"] = "hi" /\ InitialVars["X"] = "old"

\* C14: write_file on a block with once=true whose resolved path exists
\* returns success with an "already exists" message and leaves the
\* filesystem, so the file's content and permissions, as it was, in write
\* and in append mode, with and without the executable flag.
C14_OnceLeavesExistingFile ==
    [][(nops' = nops + 1 /\ ret'.op = "write_file" /\ ret'.block.once
         /\ ValidatePath(ret'.block.path, base_working_dir, allow_outside,
                         cwd).is_valid
         /\ Exists(fs, ValidatePath(ret'.block.path, base_working_dir,
                                    allow_outside, cwd).resolved_path))
       => /\ fs' = fs
          /\ ~ret'.raised /\ ret'.passed
          /\ Contains(ret'.message, "already exists")]_vars

C14_Witness ==
    /\ ret.op = "write_file" /\ ret.block.once /\ ret.block.path = "a"
    /\ ret.block.mode = "append" /\ ret.block.executable
    /\ ret.passed /\ Contains(ret.message, "already exists")
    /\ base_working_dir = "/tmp/work"
    /\ Node(fs, "/tmp/work/a") = File("x\n", FALSE)

\* text[i..j] is a token ${IDENTIFIER}
IsToken(text, i, j) ==
    /\ j >= i + 3 /\ j <= Len(text)
    /\ SubSeq(text, i, i + 1) = "${" /\ CharAt(text, j) = "}"
    /\ CharAt(text, i + 2) \in IdStart
    /\ \A k \in (i + 3)..(j - 1) : CharAt(text, k) \in IdChar

\* The tokens of a text, as <<first index, last index>>; no two overlap,
\* since a token holds "$" and "}" at its ends only
TokenSpans(text) ==
    {sp \in (1..Len(text)) \X (1..Len(text)) : IsToken(text, sp[1], sp[2])}

TokenName(text, sp) == SubSeq(text, sp[1] + 2, sp[2] - 1)

\* text from index pos on, each token whose name is in d replaced by d's
\* value for it, everything else as it is
RECURSIVE Replaced(_, _, _)
Replaced(d, text, pos) ==
    LET ahead == {sp \in TokenSpans(text) : sp[1] >= pos}
    IN  IF ahead = {} THEN SubSeq(text, pos, Len(text))
        ELSE LET sp == CHOOSE a \in ahead : \A b \in ahead : a[1] <= b[1]
             IN  SubSeq(text, pos, sp[1] - 1)
                    \o (IF TokenName(text, sp) \in DOMAIN d
                        THEN d[TokenName(text, sp)]
                        ELSE SubSeq(text, sp[1], sp[2]))
                    \o Replaced(d, text, sp[2] + 1)

\* C15: substitute is idempotent on resolvable text: when every ${name}
\* token of T is defined in the store and no stored value contains a
\* ${...} token, substitute(substitute(T)) = substitute(T).
C15_SubstituteIdempotent ==
    (/\ Len(s_outs) >= 2
     /\ \A sp \in TokenSpans(s_text) : TokenName(s_text, sp) \in DOMAIN s_store
     /\ \A k \in DOMAIN s_store : TokenSpans(s_store[k]) = {})
    => s_outs[2] = s_outs[1]

\* C15 as amended: when every "$" of T begins a ${name} token that is
\* defined in the store and no stored value contains "$",
\* substitute(substitute(T)) = substitute(T).
C15_IdempotentWithoutDollar ==
    (/\ Len(s_outs) >= 2
     /\ \A i \in 1..Len(s_text) :
            CharAt(s_text, i) = "$" =>
                \E sp \in TokenSpans(s_text) :
                    sp[1] = i /\ TokenName(s_text, sp) \in DOMAIN s_store
     /\ \A k \in DOMAIN s_store : ~Contains(s_store[k], "$"))
    => s_outs[2] = s_outs[1]

C15_Witness ==
    /\ Len(s_outs) >= 2 /\ s_text = "a${X}b${Y}"
    /\ s_store = [k \in {"X", "Y"} |-> IF k = "X" THEN "hi" ELSE ""]
    /\ s_outs[1] = "ahib" /\ s_outs[2] = "ahib"

\* C16: substitute replaces, in one pass, every ${IDENTIFIER} token whose
\* name is in the store by the stored value, leaves a token whose name is
\* not in the store and all other text as they are, returns a string
\* whatever the text, and leaves the store as it was.
C16_SubstituteSinglePass ==
    [][Len(s_outs') > Len(s_outs) =>
        /\ s_store' = s_store
        /\ s_outs'[Len(s_outs')]
              = Replaced(s_store, IF s_outs = <<>> THEN s_text
                                  ELSE s_outs[Len(s_outs)], 1)]_vars

C16_Witness ==
    /\ s_text = "${Z} ${X}" /\ s_store = [k \in {"X", "Y"} |-> IF k = "X" THEN "1" ELSE "${X}"]
    /\ Len(s_outs) >= 1 /\ s_outs[1] = "${Z} 1"

\* Index i of s is inside a quoted string: an odd number of quotes of one
\* kind stands before it
InQuotes(s, i) ==
    \E q \in {"\"", "'"} :
        /\ Cardinality({j \in 1..(i - 1) : CharAt(s, j) = q}) % 2 = 1
        /\ CharAt(s, i) # q

\* Index i of s separates words: a blank or "}" outside quotes
Separates(s, i) == CharAt(s, i) \in Whitespace \cup {"}"} /\ ~InQuotes(s, i)

\* The words of an attribute block: the maximal runs of its characters
\* between separators
WordsOf(s) ==
    {SubSeq(s, a, CHOOSE b \in a..Len(s) :
                    /\ b = Len(s) \/ Separates(s, b + 1)
                    /\ \A c \in (a + 1)..b : ~Separates(s, c)) :
        a \in {x \in 1..Len(s) :
                ~Separates(s, x) /\ (x = 1 \/ Separates(s, x - 1))}}

\* The class list a line declares: the words .name of its attribute block
DeclaredClasses(line) ==
    IF ~Contains(line, "{") THEN {}
    ELSE {SubSeq(w, 2, Len(w)) :
            w \in {x \in WordsOf(SubSeq(line, Find(line, "{", 1) + 1, Len(line))) :
                    Head(x) = "."}}

\* The elements of a sequence
Range(seq) == {seq[i] : i \in 1..Len(seq)}

\* C17: a fence whose class list contains neither gr-run nor gr-file is in
\* no step's code_blocks or file_blocks, wherever it stands, also when its
\* attributes mention a marker word in a data value.
C17_UnmarkedFenceNotExecutable ==
    parser.status = "done" =>
        \A step \in Range(parser.tutorial.steps) :
            /\ \A block \in Range(step.code_blocks) :
                  DeclaredClasses(lines[block.line_number])
                      \cap {"gr-run", "gr-file"} # {}
            /\ \A file_block \in Range(step.file_blocks) :
                  DeclaredClasses(lines[file_block.line_number])
                      \cap {"gr-run", "gr-file"} # {}

\* A value without the quotes around it
Unquote(v) ==
    IF Len(v) >= 2 /\ Head(v) \in {"\"", "'"} /\ CharAt(v, Len(v)) = Head(v)
    THEN SubSeq(v, 2, Len(v) - 1) ELSE v

\* The data attributes a line declares: the words data-key=value of its
\* attribute block, as key -> value without quotes
DeclaredData(line) ==
    LET words == IF ~Contains(line, "{") THEN {}
                 ELSE {w \in WordsOf(SubSeq(line, Find(line, "{", 1) + 1, Len(line))) :
                        StartsWith(w, "data-") /\ Find(w, "=", 1) > 6}
        KeyOf(w) == SubSeq(w, 6, Find(w, "=", 1) - 1)
    IN  [k \in {KeyOf(w) : w \in words} |->
            LET w == CHOOSE x \in words : KeyOf(x) = k
            IN  Unquote(SubSeq(w, Find(w, "=", 1) + 1, Len(w)))]

\* Line i opens a fence that a later line closes: it is a fence line with an
\* even number of fence lines before it and one after it
OpensClosedFence(i) ==
    /\ IsFence(lines[i])
    /\ Cardinality({j \in 1..(i - 1) : IsFence(lines[j])}) % 2 = 0
    /\ \E j \in (i + 1)..Len(lines) : IsFence(lines[j])

\* The code of the fence that line i opens
FenceCode(i) ==
    LET close == CHOOSE j \in (i + 1)..Len(lines) :
                    IsFence(lines[j]) /\ \A k \in (i + 1)..(j - 1) : ~IsFence(lines[k])
    IN  JoinLines(SubSeq(lines, i + 1, close - 1))

\* The indexes of the steps that line i is in: the last step that starts
\* before the line
StepsOf(i) ==
    {k \in 1..Len(parser.tutorial.steps) :
        /\ parser.tutorial.steps[k].line_number < i
        /\ \A m \in 1..Len(parser.tutorial.steps) :
              parser.tutorial.steps[m].line_number < i
                  => parser.tutorial.steps[m].line_number
                        <= parser.tutorial.steps[k].line_number}

\* The line a part of content_parts comes from, 0 for text
PartLine(part) ==
    IF part.kind = "code" THEN part.block.line_number
    ELSE IF part.kind = "file" THEN part.file.line_number ELSE 0

Declared(data, key) == IF key \in DOMAIN data THEN Some(data[key]) ELSE None

\* C19: every CodeBlock of the final Tutorial has its fields from the data
\* attributes its fence line declares, the quotes of a quoted value
\* stripped: mode from data-mode (default exit), expected from data-exp or
\* else data-expected (default 0), timeout from data-timeout (default 30),
\* working_dir from data-workdir, continue_on_error exactly when
\* data-continue-on-error is "true" in any case, and out_var, out_file and
\* code_var from data-out-var, data-out-file and data-code-var, absent when
\* not given.
C19_CodeBlockFieldsFromAttributes ==
    parser.status = "done" =>
        \A step \in Range(parser.tutorial.steps) :
            \A block \in Range(step.code_blocks) :
                LET data == DeclaredData(lines[block.line_number])
                IN  /\ block.mode = DictGet(data, "mode", "exit")
                    /\ block.expected
                          = DictGet(data, "exp", DictGet(data, "expected", "0"))
                    /\ IF "timeout" \in DOMAIN data
                       THEN block.timeout \in DecimalValues(data["timeout"])
                       ELSE block.timeout = 30
                    /\ block.working_dir = Declared(data, "workdir")
                    /\ block.continue_on_error
                          = (Lower(DictGet(data, "continue-on-error", "")) = "true")
                    /\ block.out_var = Declared(data, "out-var")
                    /\ block.out_file = Declared(data, "out-file")
                    /\ block.code_var = Declared(data, "code-var")

\* Line i opens a fence: a fence line with an even number of fence lines
\* before it
OpensFence(i) ==
    /\ IsFence(lines[i])
    /\ Cardinality({j \in 1..(i - 1) : IsFence(lines[j])}) % 2 = 0

\* Line i is text of the document: outside every fence and not a heading
IsTextLine(i) ==
    /\ ~IsFence(lines[i])
    /\ Cardinality({j \in 1..(i - 1) : IsFence(lines[j])}) % 2 = 0
    /\ ~StartsWith(Strip(lines[i]), "#")

\* The n-th smallest element of a set of integers
Nth(S, n) == CHOOSE x \in S : Cardinality({y \in S : y < x}) = n - 1

\* The line after the last line of step k
StepEnd(k) ==
    IF k < Len(parser.tutorial.steps)
    THEN parser.tutorial.steps[k + 1].line_number ELSE Len(lines) + 1

\* The lines of step k where a text span starts: its heading and the lines
\* that open a fence
SpanStarts(k) ==
    {parser.tutorial.steps[k].line_number}
        \cup {i \in (parser.tutorial.steps[k].line_number + 1)..(StepEnd(k) - 1) :
                OpensFence(i)}

\* The text span of step k that starts after line b: the text lines up to
\* the next start of a span or the end of the step, joined
SpanText(k, b) ==
    LET stop == Nth({x \in SpanStarts(k) \cup {StepEnd(k)} : x > b}, 1)
        at == {i \in (b + 1)..(stop - 1) : IsTextLine(i)}
    IN  JoinLines([j \in 1..Cardinality(at) |-> lines[Nth(at, j)]])

\* The lines of the fences that gave a block to some step
BlockLines ==
    UNION {{PartLine(part) : part \in {x \in Range(step.content_parts) :
                                            x.kind # "text"}}
                \cup {block.line_number : block \in Range(step.code_blocks)} :
            step \in Range(parser.tutorial.steps)}

\* The places of step k in the document that give a part, in document
\* order: 2i for the block of the fence that line i opens, 2b + 1 for the
\* text span after line b
PartPlaces(k) ==
    {2 * i : i \in {x \in BlockLines :
                        /\ x > parser.tutorial.steps[k].line_number
                        /\ x < StepEnd(k)}}
        \cup {2 * b + 1 : b \in {x \in SpanStarts(k) : Strip(SpanText(k, x)) # ""}}

\* The blocks of the code parts of a sequence of parts, in order
CodeBlocksOf(parts) ==
    LET code == SelectSeq(parts, LAMBDA part : part.kind = "code")
    IN  [n \in 1..Len(code) |-> code[n].block]

\* C20: in every step of the final Tutorial, content_parts holds one part
\* for each text span and each block of the step and nothing else, in the
\* order of the document: each text part is the text between two fences of
\* the step, each block part is the block of the fence at its place, no
\* block is there twice or in another step; and code_blocks is the
\* sequence of the CodeBlocks of content_parts, in the same order.
C20_ContentPartsInDocumentOrder ==
    parser.status = "done" =>
        \A k \in 1..Len(parser.tutorial.steps) :
            LET step == parser.tutorial.steps[k]
            IN  /\ step.code_blocks = CodeBlocksOf(step.content_parts)
                /\ Len(step.content_parts) = Cardinality(PartPlaces(k))
                /\ \A n \in 1..Len(step.content_parts) :
                      LET place == Nth(PartPlaces(k), n)
                          part == step.content_parts[n]
                      IN  IF place % 2 = 1
                          THEN part = TextPart(SpanText(k, place \div 2))
                          ELSE /\ part.kind # "text"
                               /\ PartLine(part) = place \div 2
                               /\ OpensClosedFence(place \div 2)
                               /\ part.kind = "code" =>
                                    part.block.code
                                        = Strip(FenceCode(place \div 2))

C20_Witness ==
    /\ parser.status = "done" /\ Len(parser.tutorial.steps) = 1
    /\ Len(parser.tutorial.steps[1].content_parts) = 3
    /\ parser.tutorial.steps[1].content_parts[1] = TextPart("{.gr-step}")
    /\ parser.tutorial.steps[1].content_parts[2].kind = "code"
    /\ parser.tutorial.steps[1].content_parts[3] = TextPart("text")
    /\ Len(parser.tutorial.steps[1].code_blocks) = 1

\* C29: a call of execute_code_block that ends in an execution error (the
\* working directory is missing, the command times out, it cannot be run)
\* leaves the Variable Store and the filesystem as they were before the
\* call: nothing is captured on the launch and nothing on the error return.
C29_ErrorLeavesStoreAndFiles ==
    [][((nops' # nops \/ pc' # pc)
            /\ \/ pc' = "running"
               \/ /\ ret'.op \in ExecOps
                  /\ ret'.kind \in {"missing_dir", "timeout", "launch_failure"})
          => variables' = variables /\ fs' = fs]_vars

C29_Witness ==
    /\ ret.op \in ExecOps /\ ret.kind = "timeout" /\ pc = "idle"
    /\ ret.block.out_var = Some("X") /\ ret.block.code_var = Some("Y")
    /\ variables = InitialVars

\* Line i is a heading of the document: outside every fence, starting with
\* "#"
IsHeadingLine(i) ==
    /\ ~IsFence(lines[i])
    /\ Cardinality({j \in 1..(i - 1) : IsFence(lines[j])}) % 2 = 0
    /\ StartsWith(Strip(lines[i]), "#")

\* The line that holds the attribute block of heading i: the heading line,
\* or else the next line when that starts with "{"; 0 when there is none
AttrLineOf(i) ==
    IF Contains(lines[i], "{") THEN i
    ELSE IF i < Len(lines) /\ StartsWith(Strip(lines[i + 1]), "{") THEN i + 1
    ELSE 0

\* The headings whose class list contains gr-step
StepHeadings ==
    {i \in 1..Len(lines) :
        /\ IsHeadingLine(i)
        /\ AttrLineOf(i) # 0
        /\ "gr-step" \in DeclaredClasses(lines[AttrLineOf(i)])}

\* The lines from..to that are text of the document and not in skip, each
\* followed by a newline
RECURSIVE Prose(_, _, _)
Prose(from, to, skip) ==
    IF from > to THEN ""
    ELSE (IF IsTextLine(from) /\ from \notin skip THEN lines[from] \o "\n" ELSE "")
            \o Prose(from + 1, to, skip)

\* C21: the final Tutorial has one Step for each heading outside a fence
\* whose class list contains gr-step, in the order of the document, the
\* last one included; the blocks of a step are those of the fences between
\* its heading and the next step heading, and its content is the text
\* lines between them (the attribute line under a heading counted or not).
C21_OneStepPerStepHeading ==
    parser.status = "done" =>
        /\ Len(parser.tutorial.steps) = Cardinality(StepHeadings)
        /\ \A k \in 1..Len(parser.tutorial.steps) :
              LET step == parser.tutorial.steps[k]
                  from == Nth(StepHeadings, k)
                  to == IF k < Cardinality(StepHeadings)
                        THEN Nth(StepHeadings, k + 1) ELSE Len(lines) + 1
              IN  /\ step.line_number = from
                  /\ \A n \in 1..Len(step.content_parts) :
                        step.content_parts[n].kind # "text" =>
                            /\ PartLine(step.content_parts[n]) > from
                            /\ PartLine(step.content_parts[n]) < to
                  /\ \A block \in Range(step.code_blocks) :
                        block.line_number > from /\ block.line_number < to
                  /\ step.content \in {Prose(from + 1, to - 1, {}),
                                       Prose(from + 1, to - 1, {AttrLineOf(from)})}

\* The text of heading i: the line up to its attribute block, without the
\* "#"s it starts with and the blanks around
HeadingTitle(i) ==
    LET body == Strip(IF Contains(lines[i], "{")
                      THEN SubSeq(lines[i], 1, Find(lines[i], "{", 1) - 1)
                      ELSE lines[i])
        hashes == CHOOSE n \in 0..Len(body) :
                    /\ \A j \in 1..n : CharAt(body, j) = "#"
                    /\ n = Len(body) \/ CharAt(body, n + 1) # "#"
    IN  Strip(SubSeq(body, hashes + 1, Len(body)))

\* The top-level headings without the step marker
TopLevelHeadings ==
    {i \in 1..Len(lines) :
        /\ IsHeadingLine(i)
        /\ StartsWith(Strip(lines[i]), "# ")
        /\ i \notin StepHeadings}

DeclaredId(line) ==
    LET block == SubSeq(line, Find(line, "{", 1) + 1, Len(line))
        ids == {a \in 1..Len(block) :
                    /\ CharAt(block, a) = "#"
                    /\ ~Separates(block, a)
                    /\ a = 1 \/ Separates(block, a - 1)}
    IN  IF ids = {} THEN None
        ELSE Some(SubSeq(block, Nth(ids, 1) + 1,
                         CHOOSE b \in Nth(ids, 1)..Len(block) :
                            /\ b = Len(block) \/ Separates(block, b + 1)
                            /\ \A c \in (Nth(ids, 1) + 1)..b : ~Separates(block, c)))

\* C30: every step of the final Tutorial has the title of its heading and
\* the id of the heading's attribute block, written on the heading line or
\* alone on the next line, and the line of the attribute block is in
\* neither the step's content nor a text span of its content_parts.
C30_AttributeLineIsNotContent ==
    parser.status = "done" =>
        \A k \in 1..Len(parser.tutorial.steps) :
            LET step == parser.tutorial.steps[k]
                at == AttrLineOf(step.line_number)
            IN  /\ at # 0
                /\ step.title = HeadingTitle(step.line_number)
                /\ step.step_id = DeclaredId(lines[at])
                /\ step.content
                      = Prose(step.line_number + 1, StepEnd(k) - 1, {at})
                /\ \A part \in Range(step.content_parts) :
                      part.kind = "text" => ~Contains(part.text, lines[at])

(***************************************************************************)
(* Properties of OutputConfig                                              *)
(***************************************************************************)
\* The level that the call's sources name, by precedence: the verbosity
\* argument, --debug, --quiet, the count of -v, GUIDERAILS_VERBOSITY, the
\* verbosity entry of the configuration file, NORMAL.  A string that names
\* no level stands for NORMAL.
PrecedenceLevel ==
    LET Named(s) == Bind(Lower(s),
                         LAMBDA l : IF l \in Levels THEN l ELSE "normal")
    IN  IF o_args.verbosity # None THEN Named(o_args.verbosity[1])
        ELSE IF o_args.debug THEN "debug"
        ELSE IF o_args.quiet THEN "quiet"
        ELSE IF o_args.verbose_count >= 3 THEN "debug"
        ELSE IF o_args.verbose_count \in {1, 2} THEN "verbose"
        ELSE IF "GUIDERAILS_VERBOSITY" \in DOMAIN environ
                /\ environ["GUIDERAILS_VERBOSITY"] # ""
        THEN Named(environ["GUIDERAILS_VERBOSITY"])
        ELSE IF yml # None /\ "verbosity" \in DOMAIN yml[1]
                /\ yml[1]["verbosity"].type = "str"
        THEN Named(yml[1]["verbosity"].str)
        ELSE "normal"

\* The call names a level by its arguments or by GUIDERAILS_VERBOSITY
NamedByCallOrEnv ==
    \/ o_args.verbosity # None
    \/ o_args.debug
    \/ o_args.quiet
    \/ o_args.verbose_count > 0
    \/ "GUIDERAILS_VERBOSITY" \in DOMAIN environ
          /\ environ["GUIDERAILS_VERBOSITY"] # ""

C24_TogglePrecedence ==
    o_ret # None =>
        \A toggle \in Toggles :
            IF toggle \in DOMAIN o_args.shows
            THEN o_ret[1][toggle] = o_args.shows[toggle]
            ELSE IF EnvVars[toggle] \in DOMAIN environ
            THEN o_ret[1][toggle]
                    = (Lower(environ[EnvVars[toggle]]) \in {"true", "1", "yes", "on"})
            ELSE /\ yml # None
                 /\ toggle \in DOMAIN yml[1]
                 /\ yml[1][toggle].type = "bool"
                 /\ LoadConfigFile(yml) # None
                 => o_ret[1][toggle] = yml[1][toggle].bool

\* C25: in CI mode from_cli_and_env keeps every level that is named, by the
\* verbosity argument, the flags --quiet, -v and --debug,
\* GUIDERAILS_VERBOSITY or a verbosity entry of the configuration file, a
\* named "normal" too, and gives QUIET only when none of them names one.
C25_CiQuietOnlyWhenNothingExplicit ==
    /\ o_ret # None
    /\ o_args.is_ci
    /\ \/ NamedByCallOrEnv
       \/ /\ yml # None
          /\ "verbosity" \in DOMAIN yml[1]
          /\ yml[1]["verbosity"].type = "str"
    => o_ret[1].verbosity = PrecedenceLevel

(***************************************************************************)
(* Properties of GuideRunner                                               *)
(***************************************************************************)
\* The part of the tutorial that call c of entry e of ran was made on
CalledPart(e, c) == runner.tutorial[e.idx].content_parts[e.calls[c].part]

\* Call c of entry e is a code block that failed validation, with the
\* given continue_on_error
FailedCode(e, c, continue_on_error) ==
    /\ CalledPart(e, c).kind = "code"
    /\ ~e.calls[c].ok
    /\ CalledPart(e, c).block.continue_on_error = continue_on_error

\* C26: run takes the steps in document order; in CI mode no step is run
\* after a step that failed; in guided mode every step of the tutorial has
\* been run when run returns; and run returns true exactly when no step it
\* ran has failed.
C26_CiStopsOnFirstFailure ==
    /\ \A k \in 1..Len(runner.ran) : runner.ran[k].idx = k
    /\ ~runner.guided =>
          \A k \in 1..(Len(runner.ran) - 1) : runner.ran[k].passed = Some(TRUE)
    /\ runner.pc = "returned" /\ runner.guided =>
          Len(runner.ran) = Len(runner.tutorial)
    /\ runner.pc = "returned" =>
          runner.ret = Some(\A k \in 1..Len(runner.ran) :
                                runner.ran[k].passed = Some(TRUE))

\* C27: in every step the Executor is called on file blocks and code blocks
\* only, in the order of content_parts and without leaving one out, and a
\* code block that fails validation with continue_on_error false is the
\* last call of its step, which has then failed.
C27_BlocksInOrderUntilHaltingFailure ==
    \A k \in 1..Len(runner.ran) :
        LET e == runner.ran[k]
            parts == runner.tutorial[e.idx].content_parts
        IN  \A c \in 1..Len(e.calls) :
                /\ CalledPart(e, c).kind \in {"file", "code"}
                /\ \A i \in ((IF c = 1 THEN 0 ELSE e.calls[c - 1].part) + 1)
                                ..(e.calls[c].part - 1) :
                      parts[i].kind = "text"
                /\ c > 1 => e.calls[c - 1].part < e.calls[c].part
                /\ FailedCode(e, c, FALSE) =>
                      c = Len(e.calls) /\ e.passed = Some(FALSE)

\* A code block fails with continue_on_error false before a text span and a
\* file block: the step has failed with this one call
C27_Witness ==
    /\ runner.pc = "returned"
    /\ Len(runner.ran) = 1
    /\ runner.tutorial[1].content_parts
          = <<Command(FALSE), TextPart("t"), Script>>
    /\ runner.ran[1].calls = <<[part |-> 1, ok |-> FALSE]>>
    /\ runner.ran[1].passed = Some(FALSE)
    /\ runner.ret = Some(FALSE)

\* C28: a code block that fails validation with continue_on_error true
\* halts nothing, with or without banners: a step that has returned has
\* called the Executor on every block after it, a step in which nothing
\* else failed has passed, and run returns true when nothing else failed in
\* any step.
C28_ContinueOnErrorDoesNotHalt ==
    LET Tolerated(e) ==
            \A c \in 1..Len(e.calls) : e.calls[c].ok \/ FailedCode(e, c, TRUE)
    IN  /\ \A k \in 1..Len(runner.ran) :
              LET e == runner.ran[k]
                  step == runner.tutorial[e.idx]
              IN  /\ \A c \in 1..Len(e.calls) :
                        /\ FailedCode(e, c, TRUE)
                        /\ e.passed # None
                        /\ NextBlock(step, e.calls[c].part + 1)
                              <= Len(step.content_parts)
                        => /\ c < Len(e.calls)
                           /\ e.calls[c + 1].part
                                 = NextBlock(step, e.calls[c].part + 1)
                  /\ e.passed # None /\ Tolerated(e) => e.passed = Some(TRUE)
        /\ /\ runner.pc = "returned"
           /\ \A k \in 1..Len(runner.ran) : Tolerated(runner.ran[k])
           => runner.ret = Some(TRUE)

\* Without banners a code block with continue_on_error true fails, the
\* file block after it is written, and run returns true
C28_Witness ==
    /\ runner.pc = "returned"
    /\ ~runner.show_step_banners
    /\ Len(runner.ran) = 1
    /\ runner.tutorial[1].content_parts = <<TextPart("t"), Command(TRUE), Script>>
    /\ runner.ran[1].calls = <<[part |-> 2, ok |-> FALSE], [part |-> 3, ok |-> TRUE]>>
    /\ runner.ran[1].passed = Some(TRUE)
    /\ runner.ret = Some(TRUE)

=============================================================================
